---- MODULE Spec2Model ----
(***************************************************************************)
(* Model of tmuxcc's background monitor (src/src/monitor/task.rs): the     *)
(* poll loop MonitorTask::run, one cycle of which drains the factory       *)
(* command channel, polls the tmux panes (poll_tmux_agents, with the       *)
(* title-spinner override and the status hysteresis), polls the AgentOS    *)
(* API under exponential backoff (poll_all), derives the flash message and *)
(* sends one MonitorUpdate.                                                *)
(*                                                                         *)
(* Time is in milliseconds.  One variable, now, stands for both clocks the *)
(* code reads (Instant::now and SystemTime::now): the wall clock is taken  *)
(* to advance with the monotonic clock and the epoch to fall on now = 0.   *)
(* Strings the code only compares for equality are TLA+ strings; a pane    *)
(* target, which the code orders, is a sequence of one-character strings   *)
(* ordered by character code.  Of MonitoredAgent the fields target, path,  *)
(* agent_type, status, pid, started_at and last_updated are kept.          *)
(*                                                                         *)
(* With it: the process cache of src/src/tmux/pane.rs, the channel from    *)
(* the task to the presentation loop and that loop's update arm and event  *)
(* handlers (src/src/ui/app.rs, src/src/app/state.rs), and the parser      *)
(* registry (src/src/parsers).  An update carries the number of the cycle  *)
(* that sent it, which the code does not keep, to tell updates apart.      *)
(***************************************************************************)
EXTENDS Integers, Sequences, FiniteSets, TLC

\* ------------------------------------------------------------ constants
STATUS_HYSTERESIS_MS == 2000
PollIntervalMs == 500
\* u32::MAX is 4294967295; TLC's integers end at 2147483647, which stands for it
\* (no run within the horizons below counts that far).
U32Max == 2147483647
BackoffCapExp == 5
AnalyticsEvery == 10
\* ProcessTreeCache: the age a refresh must exceed, and the age a new cache
\* starts with.
CacheRefreshMs == 500
CacheInitialAgeMs == 100000
\* mpsc::channel(32): the updates the channel to the presentation loop holds.
ChannelCapacity == 32

\* ------------------------------------------------------------ bounds
\* Spec: the poll index (now \div PollIntervalMs) no cycle runs past.
MaxPollIndex == 4
\* SpecPanes: the same, for the pane-classification environment.
MaxPanesPollIndex == 5
\* SpecMerge: the same, for the merge environment.
MaxMergePollIndex == 3
\* SpecBackoff: the same, for the long-horizon backoff environment.
MaxBackoffPollIndex == 68
\* A cycle lasts the sleep of one poll interval plus 0..MaxWorkIntervals
\* further intervals of work (exec calls, HTTP calls up to their timeout).
MaxWorkIntervals == 1
\* Commands that may wait in the factory channel.
MaxPending == 1
\* SpecIntervals: the cycles a run makes.
MaxIntervalCycles == 7

VARIABLES
    agentos_client,     \* TRUE: Some(client), FALSE: None
    now,                \* the clock, ms
    last_active,        \* HashMap<String, Instant>: a function on its keys
    api_fail_count,     \* u32
    was_connected,      \* bool
    analytics_counter,  \* u32
    factory_rx,         \* commands waiting in the factory channel
    update,             \* the MonitorUpdate sent last on tx, or NoUpdate
    task,               \* the monitor task: "running" or "stopped"
    rx_open,            \* the presentation loop still holds the receiver of tx
    sent_count,         \* updates sent on tx so far (observation)
    active_seen,        \* per target, the time of the last cycle that
                        \* classified it active (observation)
    cyc,                \* what the last cycle did (observation only)
    since_try,          \* cycles since the last API attempt made with 3 or
                        \* more failures counted, -1 if none (observation)
    skip_run,           \* consecutive cycles skipped by backoff (observation)
    poll_interval,      \* Duration, ms: config.poll_interval_ms
    process_cache,      \* PROCESS_CACHE: the ProcessTreeCache (last_update)
    ps_last,            \* the time of the last `ps` query, -1 if none
                        \* (observation)
    chan,               \* the updates in the channel from tx to rx
    state,              \* AppState of the presentation loop
    rx_last,            \* the update rx.recv() returned last (observation)
    render,             \* what the last terminal.draw showed (observation)
    ui_last,            \* what the last event handler did (observation)
    probe,              \* a pane handed to the parser registry, and the
                        \* parser find_parser_for_pane returned for it
    scan                \* a capture handed to a parser, and the status and
                        \* context percentage the parser read from it

vars == <<agentos_client, now, last_active, api_fail_count, was_connected,
          analytics_counter, factory_rx, update, task, rx_open, sent_count,
          active_seen, cyc, since_try, skip_run, poll_interval, process_cache,
          ps_last, chan, state, rx_last, render, ui_last, probe, scan>>

\* The variables of the presentation loop.
uiVars == <<state, rx_last, render, ui_last>>

\* ------------------------------------------------------------ strings
CharCode(c) ==
    CASE c = "-" -> 45 [] c = "." -> 46
      [] c = "0" -> 48 [] c = "1" -> 49 [] c = "2" -> 50 [] c = "3" -> 51
      [] c = "4" -> 52 [] c = "5" -> 53 [] c = "6" -> 54 [] c = "7" -> 55
      [] c = "8" -> 56 [] c = "9" -> 57 [] c = ":" -> 58
      [] c = "a" -> 97 [] c = "e" -> 101 [] c = "g" -> 103 [] c = "m" -> 109
      [] c = "n" -> 110 [] c = "o" -> 111 [] c = "s" -> 115 [] c = "t" -> 116
      [] c = "x" -> 120

DigitChar(d) ==
    CASE d = 0 -> "0" [] d = 1 -> "1" [] d = 2 -> "2" [] d = 3 -> "3"
      [] d = 4 -> "4" [] d = 5 -> "5" [] d = 6 -> "6" [] d = 7 -> "7"
      [] d = 8 -> "8" [] d = 9 -> "9"

\* format!("{}", n) for an unsigned integer
RECURSIVE Decimal(_)
Decimal(n) ==
    IF n < 10 THEN <<DigitChar(n)>>
    ELSE Decimal(n \div 10) \o <<DigitChar(n % 10)>>

\* String::cmp: -1, 0, 1 (lexicographic by character code; a proper prefix
\* is smaller)
RECURSIVE StrCmp(_, _)
StrCmp(a, b) ==
    IF a = <<>> /\ b = <<>> THEN 0
    ELSE IF a = <<>> THEN -1
    ELSE IF b = <<>> THEN 1
    ELSE IF CharCode(Head(a)) < CharCode(Head(b)) THEN -1
    ELSE IF CharCode(Head(a)) > CharCode(Head(b)) THEN 1
    ELSE StrCmp(Tail(a), Tail(b))

\* PaneInfo::target: format!("{}:{}.{}", session, window, pane)
PaneTarget(pane) ==
    pane.session \o <<":">> \o Decimal(pane.window) \o <<".">> \o Decimal(pane.pane)

\* ------------------------------------------------------------ statuses
Idle == [kind |-> "Idle", activity |-> ""]
Unknown == [kind |-> "Unknown", activity |-> ""]
ErrorStatus == [kind |-> "Error", activity |-> ""]
AwaitingApproval == [kind |-> "AwaitingApproval", activity |-> ""]
Processing(activity) == [kind |-> "Processing", activity |-> activity]

\* MonitoredAgent::new followed by the caller's field assignments and touch()
MonitoredAgent(target, path, agent_type, pid, status, t) ==
    [target |-> target, path |-> path, agent_type |-> agent_type, pid |-> pid,
     status |-> status, started_at |-> t, last_updated |-> t]

\* ------------------------------------------------------------ process cache
\* ProcessTreeCache::new
NewProcessTreeCache(t) == [last_update |-> t - CacheInitialAgeMs]

\* ProcessTreeCache::needs_refresh
NeedsRefresh(cache, t) == t - cache.last_update > CacheRefreshMs

\* ProcessTreeCache::refresh: a failed `ps` returns before last_update is set.
Refresh(cache, psOk, t) == IF psOk THEN [last_update |-> t] ELSE cache

\* refresh_process_cache
RefreshProcessCache(cache, psOk, t) ==
    IF NeedsRefresh(cache, t) THEN Refresh(cache, psOk, t) ELSE cache

\* ------------------------------------------------------------ tmux panes
NoParser == "None"

\* HashMap::insert
MapInsert(m, k, v) == [x \in DOMAIN m \cup {k} |-> IF x = k THEN v ELSE m[x]]

\* The spinner glyphs the title is searched for, by code point.
SpinnerGlyphs ==
    {"U+283F", "U+2807", "U+280B", "U+2819", "U+2838", "U+2834", "U+2826",
     "U+2827", "U+2816", "U+280F", "U+2839", "U+283C", "U+2837", "U+283E",
     "U+283D", "U+283B", "U+2810", "U+2811", "U+2812", "U+2813"}

\* pane.title.chars().any(|c| matches!(c, ...)): a title is a sequence of
\* characters.
TitleHasSpinner(title) == \E i \in 1..Len(title) : title[i] \in SpinnerGlyphs

\* The override replacing every status that is not Processing.
SpinnerOverrideAny(status, title_has_spinner) ==
    IF title_has_spinner /\ status.kind # "Processing"
    THEN Processing("Working...")
    ELSE status

\* Title-spinner override: a spinner glyph in the title turns Idle or
\* Unknown into Processing.
SpinnerOverride(status, title_has_spinner) ==
    IF title_has_spinner /\ status.kind \in {"Idle", "Unknown"}
    THEN Processing("Working...")
    ELSE status

IsActive(status) == status.kind \in {"Processing", "AwaitingApproval"}

\* Hysteresis, the map: an active status stamps the target with `t`.
MarkActive(la, target, status, t) ==
    IF IsActive(status) THEN MapInsert(la, target, t) ELSE la

\* Hysteresis with the grace window closed at its end (<= for <).
HysteresisInclusive(status, target, la, t) ==
    IF IsActive(status) THEN status
    ELSE IF status.kind = "Idle" /\ target \in DOMAIN la
              /\ t - la[target] <= STATUS_HYSTERESIS_MS
         THEN Processing("Working...")
         ELSE status

\* Hysteresis masking Unknown as it masks Idle.
HysteresisMasksUnknown(status, target, la, t) ==
    IF IsActive(status) THEN status
    ELSE IF status.kind \in {"Idle", "Unknown"} /\ target \in DOMAIN la
              /\ t - la[target] < STATUS_HYSTERESIS_MS
         THEN Processing("Working...")
         ELSE status

\* Hysteresis, the status: Idle within the grace window of the target's
\* stamp is reported as Processing.
Hysteresis(status, target, la, t) ==
    IF IsActive(status) THEN status
    ELSE IF status.kind = "Idle" /\ target \in DOMAIN la
              /\ t - la[target] < STATUS_HYSTERESIS_MS
         THEN Processing("Working...")
         ELSE status

\* The status of a pane as it reaches the hysteresis step.
ClassifiedStatus(pane) == SpinnerOverride(pane.parsed, pane.title_has_spinner)

\* A pane enters the tree when a parser matches it and its capture succeeds.
PaneIsPolled(pane) == pane.parser # NoParser /\ pane.capture_ok

\* The loop body of poll_tmux_agents for one polled pane.
PaneAgent(pane, la, t) ==
    MonitoredAgent(PaneTarget(pane), pane.path, pane.parser, pane.pid,
                   Hysteresis(ClassifiedStatus(pane), PaneTarget(pane), la, t), t)

\* poll_tmux_agents after list_panes succeeded: the tree and the map.
RECURSIVE PollTmuxAgents(_, _, _, _)
PollTmuxAgents(panes, tree, la, t) ==
    IF panes = <<>> THEN [tree |-> tree, la |-> la]
    ELSE IF ~PaneIsPolled(Head(panes)) THEN PollTmuxAgents(Tail(panes), tree, la, t)
    ELSE PollTmuxAgents(Tail(panes),
                        Append(tree, PaneAgent(Head(panes), la, t)),
                        MarkActive(la, PaneTarget(Head(panes)),
                                   ClassifiedStatus(Head(panes)), t),
                        t)

\* ------------------------------------------------------------ AgentOS
NoWorkspace == "None"
AgentOSPrefix == <<"a", "g", "e", "n", "t", "o", "s", ":">>

\* AgentOSClient::pane_to_agent
PaneToAgent(pane, t) ==
    MonitoredAgent(
        AgentOSPrefix \o Decimal(pane.pane) \o <<":">> \o pane.theme,
        IF pane.workspace # NoWorkspace THEN pane.workspace ELSE pane.project,
        "ClaudeCode",
        0,
        IF pane.status = "active" /\ pane.pty_running THEN Processing(pane.task)
        ELSE IF pane.status \in {"active", "idle"} THEN Idle
        ELSE Unknown,
        t)

\* A remote pane is shown when it has a real project or is running.
RemoteVisible(pane) ==
    \/ (pane.project # "--" /\ pane.project # "")
    \/ (pane.pty_running \/ pane.status = "active")

\* The duplicate test keyed on the target instead of (path, agent_type).
AlreadyExistsByTarget(tree, agent) ==
    \E i \in 1..Len(tree) : tree[i].target = agent.target

AlreadyExists(tree, agent) ==
    \E i \in 1..Len(tree) :
        tree[i].path = agent.path /\ tree[i].agent_type = agent.agent_type

\* The merge loop of poll_all over the panes fetch_panes returned.
RECURSIVE MergeRemote(_, _, _)
MergeRemote(panes, tree, t) ==
    IF panes = <<>> THEN tree
    ELSE IF RemoteVisible(Head(panes)) /\ ~AlreadyExists(tree, PaneToAgent(Head(panes), t))
         THEN MergeRemote(Tail(panes), Append(tree, PaneToAgent(Head(panes), t)), t)
         ELSE MergeRemote(Tail(panes), tree, t)

\* Vec::sort_by(|a, b| a.target.cmp(&b.target)): a stable sort.
RECURSIVE InsertByTarget(_, _)
InsertByTarget(sorted, a) ==
    IF sorted = <<>> THEN <<a>>
    ELSE IF StrCmp(a.target, sorted[Len(sorted)].target) >= 0 THEN Append(sorted, a)
    ELSE Append(InsertByTarget(SubSeq(sorted, 1, Len(sorted) - 1), a),
                sorted[Len(sorted)])

RECURSIVE SortFrom(_, _)
SortFrom(sorted, rest) ==
    IF rest = <<>> THEN sorted
    ELSE SortFrom(InsertByTarget(sorted, Head(rest)), Tail(rest))

SortByTarget(tree) == SortFrom(<<>>, tree)

Min(a, b) == IF a < b THEN a ELSE b

\* u32::saturating_add(1)
SaturatingInc(n) == IF n >= U32Max THEN U32Max ELSE n + 1

\* The poll index the backoff reads: epoch milliseconds over the poll interval.
PollIndex(t) == t \div poll_interval

BackoffPolls(fail) == 2 ^ Min(fail, BackoffCapExp)

ShouldTryApi(fail, t) == fail = 0 \/ PollIndex(t) % BackoffPolls(fail) = 0

\* The u64 division of should_try_api panics on a zero poll interval; the
\* `||` evaluates it only with a failure counted.
DivisionByZero(fail) == fail # 0 /\ poll_interval = 0

\* The skipping path returning no agent.
SkippedTreeEmpty(tree) == <<>>

\* The tree poll_all returns on the path that skips the API call.
SkippedTree(tree) == tree

\* The tree poll_all returns when the API call was made.
MergedTree(panesResp, tree, t) ==
    SortByTarget(IF panesResp.ok THEN MergeRemote(panesResp.panes, tree, t) ELSE tree)

\* poll_all wrapped by run's match: an Err becomes the empty result.
PollAll(client, fail, la, t, listing, panesResp, queueResp) ==
    LET tm == PollTmuxAgents(listing.panes, <<>>, la, t)
        base == [err |-> FALSE, tree |-> <<>>, queue_tasks |-> <<>>,
                 connected |-> FALSE, fail |-> fail, la |-> tm.la,
                 attempted |-> FALSE, skipped |-> FALSE, panic |-> FALSE]
    IN  IF ~listing.ok
        THEN [base EXCEPT !.err = TRUE, !.la = la]
        ELSE IF ~client
        THEN [base EXCEPT !.tree = SortByTarget(tm.tree)]
        ELSE IF DivisionByZero(fail)
        THEN [base EXCEPT !.panic = TRUE]
        ELSE IF ~ShouldTryApi(fail, t)
        THEN [base EXCEPT !.tree = SkippedTree(tm.tree), !.skipped = TRUE]
        ELSE [base EXCEPT
                !.tree = MergedTree(panesResp, tm.tree, t),
                !.queue_tasks = IF queueResp.ok THEN queueResp.tasks ELSE <<>>,
                !.connected = panesResp.ok,
                !.fail = IF panesResp.ok THEN fail ELSE SaturatingInc(fail),
                !.attempted = TRUE]

\* ------------------------------------------------------------ the run loop
Flash(msg, request) == [msg |-> msg, request |-> request]
NoFlash == Flash("None", "")
NoUpdate == [sent |-> FALSE]

\* The drain of factory_rx at the top of a cycle: flash_from_factory, which
\* each drained command overwrites.  submitOk[i] is whether submit_factory
\* succeeds for the i-th command.
FlashFromFactory(client, q, submitOk) ==
    IF q = <<>> THEN NoFlash
    ELSE IF ~client THEN Flash("Factory: AgentOS not connected", "")
    ELSE IF submitOk[Len(q)] THEN Flash("Factory: accepted", q[Len(q)])
    ELSE Flash("Factory error", q[Len(q)])

\* The drain taking the first pending command only.
DrainOne(q) ==
    IF q = <<>> THEN [taken |-> <<>>, left |-> <<>>]
    ELSE [taken |-> <<Head(q)>>, left |-> Tail(q)]

\* `while let Ok(cmd) = self.factory_rx.try_recv()`: the commands taken, in
\* the order of the queue, and those left; try_recv never waits.
Drain(q) == [taken |-> q, left |-> <<>>]

\* A call the cycle makes to a collaborator.
Call(call, arg) == [call |-> call, arg |-> arg]

\* The submit_factory calls of the drain: one for each command taken, when
\* a client is configured.
SubmitCalls(client, taken) ==
    IF client THEN [i \in 1..Len(taken) |-> Call("submit_factory", taken[i])]
    ELSE <<>>

\* The calls of a cycle up to the pane listing, in the order the cycle makes
\* them: the drain's, then poll_tmux_agents' `ps` query and list_panes.
CallsToListing(client, taken, queried) ==
    SubmitCalls(client, taken)
    \o (IF queried THEN <<Call("ps", "")>> ELSE <<>>)
    \o <<Call("list_panes", "")>>

\* The if-chain that detects connection state transitions: the flash.
TransitionFlash(ff, connected, was) ==
    IF ff # NoFlash THEN ff
    ELSE IF connected /\ ~was THEN Flash("AgentOS connected", "")
    ELSE IF ~connected /\ was THEN Flash("AgentOS disconnected", "")
    ELSE NoFlash

\* The same if-chain: the failure counter it leaves.
FailCountAfter(ff, connected, was, fail) ==
    IF ff = NoFlash /\ connected /\ ~was THEN 0 ELSE fail

\* The agents of a tree that come from tmux panes (pane_to_agent gives pid 0
\* and a target under "agentos:"; a pane's pid is a live process id).
LocalAgents(tree) == {i \in 1..Len(tree) : tree[i].pid # 0}
RemoteAgents(tree) == {i \in 1..Len(tree) : tree[i].pid = 0}

PolledPanes(listing) ==
    IF listing.ok
    THEN {i \in 1..Len(listing.panes) : PaneIsPolled(listing.panes[i])}
    ELSE {}

\* The loop ending on a poll error as well.
LoopBreaksOnPollError(pollErr, sendErr) == sendErr \/ pollErr

\* The loop ends only when the send of the update fails: a poll error is
\* logged and replaced by the empty result.
LoopBreaks(pollErr, sendErr) == sendErr

RemotePaths(panesResp) ==
    {PaneToAgent(panesResp.panes[i], 0).path :
        i \in {j \in 1..Len(panesResp.panes) : RemoteVisible(panesResp.panes[j])}}

\* ------------------------------------------------------------ the channel
\* Sender::send(update).await completes when the channel has room, or with
\* an error when the receiver is gone; until then the task waits.
SendCompletes(ch, open) == ~open \/ Len(ch) < ChannelCapacity

\* The update enters the channel behind those waiting.
Send(ch, u) == Append(ch, u)

\* Receiver::recv taking the update sent last.
RecvNewest(ch) == [update |-> ch[Len(ch)], rest |-> SubSeq(ch, 1, Len(ch) - 1)]

\* Receiver::recv: the update that has waited longest.
Recv(ch) == [update |-> Head(ch), rest |-> Tail(ch)]

\* One iteration of MonitorTask::run, from the drain to the end of the sleep.
\* The environment's answers are the parameters: the pane listing, the
\* answers of fetch_panes and fetch_queue, of submit_factory per drained
\* command, of fetch_dashboard, and `work`, the poll intervals the cycle
\* takes beyond its sleep.
RunCycle(listing, panesResp, queueResp, submitOk, dashOk, psOk, work) ==
    \E ff \in {FlashFromFactory(agentos_client, Drain(factory_rx).taken, submitOk)},
       r \in {PollAll(agentos_client, api_fail_count, last_active, now,
                      listing, panesResp, queueResp)} :
    \E fail2 \in {FailCountAfter(ff, r.connected, was_connected, r.fail)},
       inRegime \in {r.attempted /\ api_fail_count >= 3},
       broke \in {LoopBreaks(r.err, ~rx_open)},
       queried \in {NeedsRefresh(process_cache, now)} :
        /\ task = "running"
        /\ factory_rx' = Drain(factory_rx).left
        /\ process_cache' = RefreshProcessCache(process_cache, psOk, now)
        /\ ps_last' = IF queried THEN now ELSE ps_last
        /\ last_active' = r.la
        /\ UNCHANGED <<agentos_client, rx_open, poll_interval, uiVars, probe, scan>>
        /\ ~r.panic
        /\ api_fail_count' = fail2
        /\ was_connected' = r.connected
        /\ analytics_counter' = analytics_counter + 1
        /\ update' = IF ~rx_open THEN update
                     ELSE [sent |-> TRUE,
                           cycle |-> analytics_counter + 1,
                           agents |-> r.tree,
                           queue_tasks |-> r.queue_tasks,
                           agentos_connected |-> r.connected,
                           flash |-> TransitionFlash(ff, r.connected, was_connected),
                           dashboard |-> r.connected
                                         /\ (analytics_counter + 1) % AnalyticsEvery = 0
                                         /\ agentos_client /\ dashOk]
        /\ sent_count' = IF rx_open THEN sent_count + 1 ELSE sent_count
        /\ task' = IF broke THEN "stopped" ELSE "running"
        /\ now' = IF broke THEN now ELSE now + poll_interval * (1 + work)
        /\ active_seen' =
             [tg \in DOMAIN active_seen
                     \cup {PaneTarget(listing.panes[i]) :
                             i \in {j \in PolledPanes(listing) :
                                      IsActive(ClassifiedStatus(listing.panes[j]))}} |->
                IF \E i \in PolledPanes(listing) :
                      /\ PaneTarget(listing.panes[i]) = tg
                      /\ IsActive(ClassifiedStatus(listing.panes[i]))
                THEN now ELSE active_seen[tg]]
        /\ cyc' = [at |-> now,
                   list_ok |-> listing.ok,
                   after_list_failure |-> cyc.at >= 0 /\ ~cyc.list_ok,
                   attempted |-> r.attempted,
                   skipped |-> r.skipped,
                   api_up |-> panesResp.ok,
                   remote_paths |-> RemotePaths(panesResp),
                   fail_before |-> api_fail_count,
                   drained |-> Len(Drain(factory_rx).taken),
                   calls |-> CallsToListing(agentos_client, Drain(factory_rx).taken,
                                            queried),
                   classified |-> [i \in PolledPanes(listing) |->
                                     [target |-> PaneTarget(listing.panes[i]),
                                      parsed |-> listing.panes[i].parsed,
                                      title |-> listing.panes[i].title,
                                      status |-> ClassifiedStatus(listing.panes[i])]],
                   gap |-> IF inRegime /\ since_try >= 0 THEN since_try + 1 ELSE -1,
                   ps_query |-> queried,
                   ps_gap |-> IF queried /\ ps_last >= 0 THEN now - ps_last ELSE -1,
                   after_ok_query |-> cyc.at >= 0 /\ cyc.ps_query
                                      /\ process_cache.last_update = cyc.at,
                   since_prev |-> IF cyc.at >= 0 THEN now - cyc.at ELSE -1,
                   sent |-> rx_open]
        /\ since_try' = IF fail2 = 0 THEN -1
                        ELSE IF inRegime THEN 0
                        ELSE IF since_try >= 0 THEN since_try + 1
                        ELSE -1
        /\ skip_run' = IF r.skipped THEN skip_run + 1 ELSE 0

\* The iteration that panics in poll_all: the drain, the cache refresh and
\* poll_tmux_agents have run, and the task is gone before it sends.
RunCyclePanics(listing, submitOk, psOk) ==
    \E r \in {PollAll(agentos_client, api_fail_count, last_active, now,
                      listing, [ok |-> FALSE, panes |-> <<>>],
                      [ok |-> FALSE, tasks |-> <<>>])},
       queried \in {NeedsRefresh(process_cache, now)} :
        /\ task = "running"
        /\ r.panic
        /\ factory_rx' = Drain(factory_rx).left
        /\ process_cache' = RefreshProcessCache(process_cache, psOk, now)
        /\ ps_last' = IF queried THEN now ELSE ps_last
        /\ last_active' = r.la
        /\ task' = "panicked"
        /\ UNCHANGED <<agentos_client, rx_open, poll_interval, now, api_fail_count,
                       was_connected, analytics_counter, update, sent_count,
                       active_seen, cyc, since_try, skip_run, chan, uiVars, probe, scan>>

\* The presentation loop enqueues a pipeline request (fire and forget) while
\* fewer than maxPending wait.
Enqueue(request, maxPending) ==
    /\ rx_open
    /\ Len(factory_rx) < maxPending
    /\ factory_rx' = Append(factory_rx, request)
    /\ UNCHANGED <<agentos_client, now, last_active, api_fail_count, was_connected,
                   analytics_counter, update, task, rx_open, sent_count,
                   active_seen, cyc, since_try, skip_run,
                   poll_interval, process_cache, ps_last, chan, uiVars, probe, scan>>

\* The operator quits: run_loop returns and the receiver of tx goes away.
Quit ==
    /\ rx_open
    /\ rx_open' = FALSE
    /\ UNCHANGED <<agentos_client, now, last_active, api_fail_count, was_connected,
                   analytics_counter, factory_rx, update, task, sent_count,
                   active_seen, cyc, since_try, skip_run,
                   poll_interval, process_cache, ps_last, chan, uiVars, probe, scan>>

SubmitFactoryCommand(request) == Enqueue(request, MaxPending)

Requests == {"req"}

\* ------------------------------------------------------------ presentation
None == "None"

\* AppState::new, and run_app's check that tmux is available.
NewAppState(tmuxAvailable) ==
    [agents |-> <<>>, queue_tasks |-> <<>>, agentos_connected |-> FALSE,
     selected_index |-> 0, selected_agents |-> {},
     last_error |-> IF tmuxAvailable THEN None ELSE "tmux is not running",
     flash_message |-> None, input_buffer |-> <<>>, should_quit |-> FALSE]

\* The arm of run_loop's select that handles a monitor update, with the
\* agents of the update left out.
ApplyUpdateKeepsAgents(st, u) ==
    [st EXCEPT
        !.queue_tasks = u.queue_tasks,
        !.agentos_connected = u.agentos_connected,
        !.flash_message = IF u.flash # NoFlash THEN u.flash.msg ELSE st.flash_message]

\* The arm of run_loop's select that handles a monitor update.
ApplyUpdate(st, u) ==
    [st EXCEPT
        !.agents = u.agents,
        !.queue_tasks = u.queue_tasks,
        !.agentos_connected = u.agentos_connected,
        !.flash_message = IF u.flash # NoFlash THEN u.flash.msg ELSE st.flash_message,
        !.selected_index = IF st.selected_index >= Len(u.agents)
                           THEN (IF Len(u.agents) = 0 THEN 0 ELSE Len(u.agents) - 1)
                           ELSE st.selected_index,
        !.selected_agents = {idx \in st.selected_agents : idx < Len(u.agents)}]

\* terminal.draw at the top of an iteration of run_loop: the agents shown,
\* with those of the update sent last and of the update received last.
Draw ==
    [drawn |-> TRUE,
     agents |-> state.agents,
     placed |-> IF update.sent THEN update.agents ELSE <<>>,
     received |-> rx_last.agents,
     queued |-> Len(chan)]

\* What an event handler did: the action, whether it came by key or by
\* mouse, the number of tmux calls it made, whether one of them failed, the
\* targets it called send_keys for, and the targets of the agents the
\* cursor or the multi-selection stands on when it returns; n counts the
\* events handled.
Handled(n, action, via, calls, failed, sent, picked) ==
    [n |-> n, action |-> action, via |-> via, calls |-> calls, failed |-> failed,
     sent |-> sent, picked |-> picked]

NoHandler == Handled(0, None, None, 0, FALSE, <<>>, <<>>)

\* An iteration of run_loop whose select takes the update arm.
ReceiveUpdate ==
    /\ rx_open
    /\ chan # <<>>
    /\ render' = Draw
    /\ chan' = Recv(chan).rest
    /\ rx_last' = [cycle |-> Recv(chan).update.cycle, agents |-> Recv(chan).update.agents]
    /\ state' = ApplyUpdate(state, Recv(chan).update)
    /\ UNCHANGED <<agentos_client, now, last_active, api_fail_count, was_connected,
                   analytics_counter, factory_rx, update, task, rx_open, sent_count,
                   active_seen, cyc, since_try, skip_run,
                   poll_interval, process_cache, ps_last, ui_last, probe, scan>>

\* ------------------------------------------------------------ parsers
\* A string is the sequence of its characters; U+2733 is the eight-spoked
\* asterisk of Claude Code's pane title.
UpperCase == <<"A", "B", "C", "D", "E", "F", "G", "H", "I", "J", "K", "L", "M", "N", "O", "P", "Q", "R", "S", "T", "U", "V", "W", "X", "Y", "Z">>
LowerCase == <<"a", "b", "c", "d", "e", "f", "g", "h", "i", "j", "k", "l", "m", "n", "o", "p", "q", "r", "s", "t", "u", "v", "w", "x", "y", "z">>
Digits == {"0", "1", "2", "3", "4", "5", "6", "7", "8", "9"}

\* str::to_lowercase on the characters used here.
ToLower(str) ==
    [i \in 1..Len(str) |->
        IF \E k \in 1..Len(UpperCase) : UpperCase[k] = str[i]
        THEN LowerCase[CHOOSE k \in 1..Len(UpperCase) : UpperCase[k] = str[i]]
        ELSE str[i]]

\* str::contains
Contains(str, sub) ==
    \E off \in 0..(Len(str) - Len(sub)) :
        \A k \in 1..Len(sub) : str[off + k] = sub[k]

\* is_version_like
IsVersionLike(str) ==
    /\ str # <<>>
    /\ Contains(str, <<".">>)
    /\ \A i \in 1..Len(str) : str[i] \in Digits \/ str[i] = "."
    /\ str[1] \in Digits

\* PaneInfo::detection_strings
DetectionStrings(pane) ==
    <<pane.command, pane.title, pane.cmdline>> \o pane.child_commands

\* ClaudeCodeParser::matches
ClaudeCodeMatches(strs) ==
    LET Test(str) ==
            \/ Contains(ToLower(str), <<"c", "l", "a", "u", "d", "e">>)
            \/ Contains(ToLower(str), <<"a", "n", "t", "h", "r", "o", "p", "i", "c">>)
            \/ Contains(str, <<"U+2733">>)
            \/ IsVersionLike(str)
    IN \E i \in 1..Len(strs) : Test(strs[i])

\* OpenCodeParser::matches
OpenCodeMatches(strs) ==
    LET Test(str) ==
            \/ Contains(ToLower(str), <<"o", "p", "e", "n", "c", "o", "d", "e">>)
            \/ Contains(ToLower(str), <<"o", "p", "e", "n", "-", "c", "o", "d", "e">>)
    IN \E i \in 1..Len(strs) : Test(strs[i])

\* CodexCliParser::matches
CodexCliMatches(strs) ==
    LET Test(str) ==
            \/ Contains(ToLower(str), <<"c", "o", "d", "e", "x">>)
            \/ Contains(ToLower(str), <<"o", "p", "e", "n", "a", "i">>)
    IN \E i \in 1..Len(strs) : Test(strs[i])

\* GeminiCliParser::matches
GeminiCliMatches(strs) ==
    LET Test(str) ==
            \/ Contains(ToLower(str), <<"g", "e", "m", "i", "n", "i">>)
            \/ Contains(ToLower(str), <<"g", "o", "o", "g", "l", "e">>)
    IN \E i \in 1..Len(strs) : Test(strs[i])

\* AgentParser::matches of the parser with the agent type given.
Matches(parser, strs) ==
    CASE parser = "ClaudeCode" -> ClaudeCodeMatches(strs)
      [] parser = "OpenCode" -> OpenCodeMatches(strs)
      [] parser = "CodexCli" -> CodexCliMatches(strs)
      [] parser = "GeminiCli" -> GeminiCliMatches(strs)

\* ParserRegistry::new: the parsers in the order of registration.
Registry == <<"ClaudeCode", "OpenCode", "CodexCli", "GeminiCli">>

\* `.iter().find(..)` from the i-th parser on.
RECURSIVE FindFrom(_, _)
FindFrom(i, strs) ==
    IF i > Len(Registry) THEN None
    ELSE IF Matches(Registry[i], strs) THEN Registry[i]
    ELSE FindFrom(i + 1, strs)

\* The search returning the last parser that matches.
FindLastParserForPane(pane) ==
    LET hits == {i \in 1..Len(Registry) : Matches(Registry[i], DetectionStrings(pane))}
    IN IF hits = {} THEN None
       ELSE Registry[CHOOSE i \in hits : \A j \in hits : j <= i]

\* ParserRegistry::find_parser_for_pane
FindParserForPane(pane) == FindFrom(1, DetectionStrings(pane))

NoProbe == [asked |-> FALSE]

\* The registry is asked for the parser of the pane.
FindParser ==
    /\ probe.asked
    /\ probe.found = "unset"
    /\ probe' = [probe EXCEPT !.found = FindParserForPane(probe.pane)]
    /\ UNCHANGED <<agentos_client, now, last_active, api_fail_count, was_connected,
                   analytics_counter, factory_rx, update, task, rx_open, sent_count,
                   active_seen, cyc, since_try, skip_run,
                   poll_interval, process_cache, ps_last, chan, uiVars, scan>>

\* ------------------------------------------------------------ capture text
\* A capture is the sequence of its characters, "\n" between lines.  The
\* characters written U+.... take three bytes in UTF-8, the others one:
\* U+276F is the prompt marker, U+2502 U+251C U+2514 U+250C U+2500 draw
\* table borders, U+273B is the star of a banner, U+FF08 the full-width
\* parenthesis (U+FF09 closes it).
Whitespace == {" ", "\t", "\n", "\r"}
Glyphs == {"U+276F", "U+2502", "U+251C", "U+2514", "U+250C", "U+2500", "U+273B", "U+FF08", "U+FF09", "U+2733"}
BorderGlyphs == {"U+2502", "U+251C", "U+2514", "U+250C", "U+2500", "U+273B"}

\* str::len, in bytes
RECURSIVE ByteLen(_)
ByteLen(str) ==
    IF str = <<>> THEN 0
    ELSE (IF Head(str) \in Glyphs THEN 3 ELSE 1) + ByteLen(Tail(str))

\* str::trim
Trim(str) ==
    LET keep == {i \in 1..Len(str) : str[i] \notin Whitespace}
    IN IF keep = {} THEN <<>>
       ELSE SubSeq(str, CHOOSE i \in keep : \A j \in keep : i <= j,
                        CHOOSE i \in keep : \A j \in keep : j <= i)

\* str::starts_with
StartsWith(str, prefix) ==
    Len(str) >= Len(prefix) /\ SubSeq(str, 1, Len(prefix)) = prefix

\* str::lines: the text between line feeds, without a final carriage
\* return, and no last line after a final line feed.
RECURSIVE LinesFrom(_, _)
LinesFrom(str, i) ==
    IF i > Len(str) THEN <<>>
    ELSE LET feeds == {k \in i..Len(str) : str[k] = "\n"}
             e == IF feeds = {} THEN Len(str) + 1
                  ELSE CHOOSE k \in feeds : \A j \in feeds : k <= j
             line == SubSeq(str, i, e - 1)
             cut == IF line # <<>> /\ line[Len(line)] = "\r"
                    THEN SubSeq(line, 1, Len(line) - 1) ELSE line
         IN <<cut>> \o LinesFrom(str, e + 1)

Lines(str) == LinesFrom(str, 1)

\* [&str]::join("\n")
RECURSIVE JoinLines(_)
JoinLines(lines) ==
    IF lines = <<>> THEN <<>>
    ELSE IF Len(lines) = 1 THEN lines[1]
    ELSE lines[1] \o <<"\n">> \o JoinLines(Tail(lines))

\* The last n elements of a sequence: `len.saturating_sub(n)..`
LastN(seq, n) == SubSeq(seq, IF Len(seq) > n THEN Len(seq) - n + 1 ELSE 1, Len(seq))

\* `.iter().rev()`
Reverse(seq) == [i \in 1..Len(seq) |-> seq[Len(seq) + 1 - i]]

\* safe_tail
SafeTail(s, max_chars) == LastN(s, max_chars)

\* A regular expression without alternation is a sequence of characters
\* and of the tokens "WS*" (\s*) and "END" ($); the match starts at j.
RECURSIVE MatchHere(_, _, _)
MatchHere(pat, str, j) ==
    IF pat = <<>> THEN TRUE
    ELSE IF Head(pat) = "END" THEN j > Len(str) /\ MatchHere(Tail(pat), str, j)
    ELSE IF Head(pat) = "WS*"
         THEN \/ MatchHere(Tail(pat), str, j)
              \/ j <= Len(str) /\ str[j] \in Whitespace /\ MatchHere(pat, str, j + 1)
    ELSE j <= Len(str) /\ str[j] = Head(pat) /\ MatchHere(Tail(pat), str, j + 1)

\* Regex::is_match of `(?i)a|b|...`, the alternatives written in lower case.
IsMatch(alternatives, str) ==
    \E low \in {ToLower(str)} :
        \E pat \in alternatives : \E j \in 1..(Len(low) + 1) : MatchHere(pat, low, j)

\* ------------------------------------------------------------ Claude Code
\* general_approval_pattern
GeneralApprovalPattern ==
    {<<"[", "y", "/", "n", "]">>,
     <<"[", "y", "e", "s", "/", "n", "o", "]">>,
     <<"(", "y", ")", "e", "s", "WS*", "/", "WS*", "(", "n", ")", "o">>,
     <<"y", "e", "s", "WS*", "/", "WS*", "n", "o">>,
     <<"y", "/", "n">>,
     <<"a", "l", "l", "o", "w", "?">>,
     <<"d", "o", " ", "y", "o", "u", " ", "w", "a", "n", "t", " ", "t", "o", " ", "a", "l", "l", "o", "w">>,
     <<"d", "o", " ", "y", "o", "u", " ", "w", "a", "n", "t", " ", "t", "o", " ", "p", "r", "o", "c", "e", "e", "d">>,
     <<"d", "o", " ", "y", "o", "u", " ", "w", "a", "n", "t", " ", "t", "o", " ", "c", "o", "n", "t", "i", "n", "u", "e">>,
     <<"d", "o", " ", "y", "o", "u", " ", "w", "a", "n", "t", " ", "t", "o", " ", "r", "u", "n">>,
     <<"d", "o", " ", "y", "o", "u", " ", "w", "a", "n", "t", " ", "t", "o", " ", "e", "x", "e", "c", "u", "t", "e">>}

\* The button test of detect_yes_no_buttons for the word given.
IsButton(trimmed, word) ==
    /\ \/ trimmed = word
       \/ StartsWith(trimmed, word \o <<",">>)
       \/ StartsWith(trimmed, word \o <<" ">>)
    /\ ByteLen(trimmed) < 40

\* detect_yes_no_buttons: the index kept for a word is the one of the last
\* button line the loop meets, which is the first from the top.
DetectYesNoButtons(lines) ==
    \E check_lines \in {[i \in 1..Len(LastN(lines, 8)) |-> Trim(Reverse(LastN(lines, 8))[i])]} :
        LET ButtonLines(word) ==
                {idx \in 1..Len(check_lines) :
                    /\ check_lines[idx] # <<>>
                    /\ ByteLen(check_lines[idx]) <= 50
                    /\ IsButton(check_lines[idx], word)}
            Last(S) == CHOOSE i \in S : \A j \in S : j <= i
        IN \E yes \in {ButtonLines(<<"Y", "e", "s">>)} : \E no \in {ButtonLines(<<"N", "o">>)} :
            /\ yes # {}
            /\ no # {}
            /\ Last(yes) - Last(no) \in -4..4

\* `^\s*(\d+)\.\s+(.+)$` on a line: whether it matches, and the digits and
\* the text of the match.  The digits are the longest run after the leading whitespace; the
\* text is what follows the whitespace after the dot, and where that
\* whitespace runs to the end of the line, its last character.
ChoiceCaptures(line) ==
    LET lead == CHOOSE i \in 1..(Len(line) + 1) :
                    /\ \A k \in 1..(i - 1) : line[k] \in Whitespace
                    /\ i <= Len(line) => line[i] \notin Whitespace
        dot == CHOOSE i \in lead..(Len(line) + 1) :
                    /\ \A k \in lead..(i - 1) : line[k] \in Digits
                    /\ i <= Len(line) => line[i] \notin Digits
        text == CHOOSE i \in (dot + 1)..(Len(line) + 1) :
                    /\ \A k \in (dot + 1)..(i - 1) : line[k] \in Whitespace
                    /\ i <= Len(line) => line[i] \notin Whitespace
    IN IF /\ dot > lead
          /\ dot <= Len(line)
          /\ line[dot] = "."
          /\ text > dot + 1
          /\ Len(line) >= dot + 2
       THEN [matched |-> TRUE,
             digits |-> SubSeq(line, lead, dot - 1),
             text |-> IF text <= Len(line) THEN SubSeq(line, text, Len(line))
                      ELSE <<line[Len(line)]>>]
       ELSE [matched |-> FALSE]

\* str::parse::<u32>, -1 for Err.  A value of ten digits stands as 10^9: no
\* list of choices is that long.
RECURSIVE DigitsValue(_)
DigitsValue(ds) ==
    IF ds = <<>> THEN 0
    ELSE 10 * DigitsValue(SubSeq(ds, 1, Len(ds) - 1)) + (CharCode(ds[Len(ds)]) - 48)

RECURSIVE StripZeros(_)
StripZeros(ds) ==
    IF Len(ds) > 1 /\ Head(ds) = "0" THEN StripZeros(Tail(ds)) ELSE ds

ParseU32(ds) ==
    LET s == StripZeros(ds)
    IN IF Len(s) <= 9 THEN DigitsValue(s)
       ELSE IF Len(s) = 10 /\ StrCmp(s, <<"4", "2", "9", "4", "9", "6", "7", "2", "9", "5">>) <= 0 THEN 1000000000
       ELSE -1

\* `choice_text.split('（').next().unwrap_or(choice_text).trim()`
Label(choice_text) ==
    LET stops == {i \in 1..Len(choice_text) : choice_text[i] = "U+FF08"}
    IN IF stops = {} THEN Trim(choice_text)
       ELSE Trim(SubSeq(choice_text, 1, (CHOOSE i \in stops : \A j \in stops : i <= j) - 1))

\* The prompt-marker test of extract_user_question.
IsPromptMarker(line) ==
    \/ StartsWith(Trim(line), <<"U+276F">>)
    \/ StartsWith(Trim(line), <<">">>) /\ ByteLen(Trim(line)) < 3

\* The table-border test of extract_user_question.
IsBorder(line) == Trim(line) # <<>> /\ Head(Trim(line)) \in BorderGlyphs

\* `lines[search_start..search_end]` of extract_user_question.
CheckLines(lines) ==
    LET marks == {i \in 1..Len(lines) : IsPromptMarker(lines[i])}
        search_end == IF marks = {} THEN Len(lines)
                      ELSE (CHOOSE i \in marks : \A j \in marks : j <= i) - 1
    IN LastN(SubSeq(lines, 1, search_end), 25)

\* The turn of the loop that keeps the choices over a long line.
ScanLineKeepsChoices(acc, line, i) ==
    LET cap == ChoiceCaptures(line)
        reset == [choices |-> <<>>, last |-> 0]
    IN IF IsBorder(line) THEN (IF acc.choices # <<>> THEN reset ELSE acc)
       ELSE IF cap.matched
       THEN IF ParseU32(cap.digits) = -1 THEN acc
            ELSE IF ParseU32(cap.digits) = Len(acc.choices) + 1
            THEN [choices |-> Append(acc.choices, Label(Trim(cap.text))), last |-> i]
            ELSE IF acc.choices # <<>> THEN reset
            ELSE acc
       ELSE acc

\* One turn of the loop of extract_user_question over line i: acc holds
\* choices and last_choice_idx (0: None).
ScanLine(acc, line, i) ==
    LET cap == ChoiceCaptures(line)
        reset == [choices |-> <<>>, last |-> 0]
    IN IF IsBorder(line) THEN (IF acc.choices # <<>> THEN reset ELSE acc)
       ELSE IF cap.matched
       THEN IF ParseU32(cap.digits) = -1 THEN acc
            ELSE IF ParseU32(cap.digits) = Len(acc.choices) + 1
            THEN [choices |-> Append(acc.choices, Label(Trim(cap.text))), last |-> i]
            ELSE IF acc.choices # <<>> THEN reset
            ELSE acc
       ELSE IF acc.choices # <<>> /\ Trim(line) # <<>> /\ ByteLen(Trim(line)) > 30
       THEN reset
       ELSE acc

\* The loop of extract_user_question over the first n lines.
RECURSIVE ScanChoices(_, _)
ScanChoices(check_lines, n) ==
    IF n = 0 THEN [choices |-> <<>>, last |-> 0]
    ELSE CHOOSE r \in {ScanLine(acc, check_lines[n], n) :
                        acc \in {ScanChoices(check_lines, n - 1)}} : TRUE

\* extract_user_question: the choices, the empty list for None (which
\* detect_approval treats alike).
ExtractUserQuestion(content) ==
    LET Found(check_lines, acc) ==
            IF check_lines = <<>> THEN <<>>
            ELSE IF acc.last # 0 /\ Len(check_lines) - (acc.last - 1) > 8 THEN <<>>
            ELSE IF Len(acc.choices) >= 2 THEN acc.choices
            ELSE <<>>
    IN CHOOSE r \in {Found(check_lines, acc) :
                        check_lines \in {CheckLines(Lines(content))},
                        acc \in {ScanChoices(CheckLines(Lines(content)),
                                              Len(CheckLines(Lines(content))))}} : TRUE

\* AgentStatus::AwaitingApproval { approval_type, .. }: UserQuestion with
\* its choices, or one of the permission kinds (FileEdit, FileCreate,
\* FileDelete, ShellCommand, McpTool, Other), written "Permission".
Awaiting(approval_type, choices) ==
    [kind |-> "AwaitingApproval", activity |-> "",
     approval_type |-> approval_type, choices |-> choices]

\* detect_approval: the status it makes parse_status return, Idle for None.
DetectApproval(content) ==
    LET Found(lines, recent_lines, choices) ==
            IF lines = <<>> THEN Idle
            ELSE IF choices # <<>> THEN Awaiting("UserQuestion", choices)
            ELSE IF /\ ~DetectYesNoButtons(recent_lines)
                    /\ ~IsMatch(GeneralApprovalPattern,
                                JoinLines(Reverse(LastN(recent_lines, 10))))
            THEN Idle
            ELSE Awaiting("Permission", <<>>)
    IN CHOOSE r \in {Found(lines, LastN(lines, 20),
                           ExtractUserQuestion(JoinLines(LastN(lines, 20)))) :
                        lines \in {Lines(content)}} : TRUE

\* The parse_status that reads Unknown from the empty capture only.
ClaudeCodeParseStatusOfEmpty(content) ==
    CHOOSE r \in {IF approval.kind = "AwaitingApproval" THEN approval
                  ELSE IF content = <<>> THEN Unknown
                  ELSE Idle : approval \in {DetectApproval(content)}} : TRUE

\* ClaudeCodeParser::parse_status
ClaudeCodeParseStatus(content) ==
    CHOOSE r \in {IF approval.kind = "AwaitingApproval" THEN approval
                  ELSE IF Trim(content) = <<>> THEN Unknown
                  ELSE Idle : approval \in {DetectApproval(content)}} : TRUE

\* The parse_status shared by the three other parsers, over their patterns.
PatternParseStatus(content, approval, processing, activity, idle) ==
    LET recent == SafeTail(content, 500)
    IN IF IsMatch(approval, recent) THEN Awaiting("Permission", <<>>)
       ELSE IF IsMatch(processing, recent) THEN Processing(activity)
       ELSE IF IsMatch(idle, recent) THEN Idle
       ELSE Unknown

\* CodexCliParser::parse_status
CodexCliParseStatus(content) ==
    PatternParseStatus(content,
        {<<"[", "y", "/", "n", "]">>, <<"[", "y", "e", "s", "/", "n", "o", "]">>, <<"c", "o", "n", "f", "i", "r", "m">>, <<"a", "p", "p", "r", "o", "v", "e">>, <<"r", "u", "n", " ", "t", "h", "i", "s">>},
        {<<"t", "h", "i", "n", "k", "i", "n", "g">>, <<"r", "u", "n", "n", "i", "n", "g">>, <<"e", "x", "e", "c", "u", "t", "i", "n", "g">>, <<"g", "e", "n", "e", "r", "a", "t", "i", "n", "g">>},
        "Processing...",
        {<<"r", "e", "a", "d", "y">>, <<"w", "a", "i", "t", "i", "n", "g">>, <<">", "WS*", "END">>, <<"$", "WS*", "END">>})

\* GeminiCliParser::parse_status
GeminiCliParseStatus(content) ==
    PatternParseStatus(content,
        {<<"[", "y", "/", "n", "]">>, <<"[", "y", "e", "s", "/", "n", "o", "]">>, <<"c", "o", "n", "f", "i", "r", "m">>, <<"a", "p", "p", "r", "o", "v", "e">>, <<"a", "l", "l", "o", "w">>},
        {<<"t", "h", "i", "n", "k", "i", "n", "g">>, <<"g", "e", "n", "e", "r", "a", "t", "i", "n", "g">>, <<"p", "r", "o", "c", "e", "s", "s", "i", "n", "g">>, <<"a", "n", "a", "l", "y", "z", "i", "n", "g">>},
        "Generating...",
        {<<"r", "e", "a", "d", "y">>, <<"w", "a", "i", "t", "i", "n", "g">>, <<">", "WS*", "END">>})

\* OpenCodeParser::parse_status
OpenCodeParseStatus(content) ==
    PatternParseStatus(content,
        {<<"[", "y", "/", "n", "]">>, <<"[", "y", "e", "s", "/", "n", "o", "]">>, <<"c", "o", "n", "f", "i", "r", "m">>, <<"a", "p", "p", "r", "o", "v", "e">>, <<"a", "l", "l", "o", "w">>},
        {<<"t", "h", "i", "n", "k", "i", "n", "g">>, <<"p", "r", "o", "c", "e", "s", "s", "i", "n", "g">>, <<"g", "e", "n", "e", "r", "a", "t", "i", "n", "g">>, <<"a", "n", "a", "l", "y", "z", "i", "n", "g">>, <<"w", "o", "r", "k", "i", "n", "g">>},
        "Processing...",
        {<<"r", "e", "a", "d", "y">>, <<"w", "a", "i", "t", "i", "n", "g">>, <<"i", "d", "l", "e">>, <<">", "WS*", "END">>})

\* AgentParser::parse_status of the parser with the agent type given.
ParseStatus(parser, content) ==
    CASE parser = "ClaudeCode" -> ClaudeCodeParseStatus(content)
      [] parser = "OpenCode" -> OpenCodeParseStatus(content)
      [] parser = "CodexCli" -> CodexCliParseStatus(content)
      [] parser = "GeminiCli" -> GeminiCliParseStatus(content)

\* str::parse::<u8>, -1 for Err.
ParseU8(ds) ==
    LET s == StripZeros(ds)
    IN IF Len(s) <= 3 /\ DigitsValue(s) <= 255 THEN DigitsValue(s) ELSE -1

\* ClaudeCodeParser::parse_context_remaining, -1 for None.  The pattern is
\* `(?i)Context\s+(?:left|remaining).*?(\d+)%`: the match starts at the
\* first "context" that can be completed, and the digits captured are the
\* first run on the same line that a percent sign follows.
ClaudeCodeParseContextRemaining(content) ==
    LET recent == SafeTail(content, 1000)
        low == ToLower(recent)
        After(s) ==
            {e \in s..(Len(low) + 1) :
                \E word \in {<<"l", "e", "f", "t">>, <<"r", "e", "m", "a", "i", "n", "i", "n", "g">>} :
                    /\ e - Len(word) > s + 7
                    /\ SubSeq(low, e - Len(word), e - 1) = word
                    /\ \A k \in (s + 7)..(e - Len(word) - 1) : low[k] \in Whitespace}
        Runs(e) ==
            {p \in e..Len(low) :
                /\ low[p] \in Digits
                /\ \A k \in e..(p - 1) : low[k] # "\n"
                /\ \E q \in p..Len(low) :
                        /\ \A k \in p..(q - 1) : low[k] \in Digits
                        /\ low[q] = "%"}
        starts == {s \in 1..Len(low) :
                     /\ StartsWith(SubSeq(low, s, Len(low)), <<"c", "o", "n", "t", "e", "x", "t">>)
                     /\ \E e \in After(s) : Runs(e) # {}}
        First(S) == CHOOSE i \in S : \A j \in S : i <= j
    IN IF starts = {} THEN -1
       ELSE LET e == First(After(First(starts)))
                p == First(Runs(e))
                q == First({k \in p..Len(low) : low[k] = "%"})
            IN ParseU8(SubSeq(low, p, q - 1))

\* AgentParser::parse_context_remaining of the parser with the agent type
\* given: the default of the trait returns None.
ParseContextRemaining(parser, content) ==
    IF parser = "ClaudeCode" THEN ClaudeCodeParseContextRemaining(content) ELSE -1

NoScan == [asked |-> FALSE]

\* The part of poll_tmux_agents that reads a capture: parse_status and
\* parse_context_remaining of the pane's parser, stored in the agent.
ParseCapture ==
    /\ scan.asked
    /\ ~scan.done
    /\ scan' = [scan EXCEPT !.done = TRUE,
                            !.status = ParseStatus(scan.parser, scan.content),
                            !.context_remaining = ParseContextRemaining(scan.parser, scan.content)]
    /\ UNCHANGED <<agentos_client, now, last_active, api_fail_count, was_connected,
                   analytics_counter, factory_rx, update, task, rx_open, sent_count,
                   active_seen, cyc, since_try, skip_run,
                   poll_interval, process_cache, ps_last, chan, uiVars, probe>>

\* AgentStatus::needs_attention
NeedsAttention(status) == status.kind \in {"AwaitingApproval", "Error"}

\* AgentTree::get_agent finds an agent at the index (counted from 0).
HasAgent(st, idx) == idx < Len(st.agents)
GetAgent(st, idx) == st.agents[idx + 1]

RECURSIVE SortedIndices(_)
SortedIndices(S) ==
    IF S = {} THEN <<>>
    ELSE LET m == CHOOSE x \in S : \A y \in S : x <= y
         IN <<m>> \o SortedIndices(S \ {m})

\* AppState::get_operation_indices
GetOperationIndices(st) ==
    IF st.selected_agents = {} THEN <<st.selected_index>>
    ELSE SortedIndices(st.selected_agents)

\* The targets of the agents at the indices that exist, whatever their
\* status.
AttentionTargetsUngated(st, idxs) ==
    LET Keep(i) == HasAgent(st, i)
        kept == SelectSeq(idxs, Keep)
    IN [k \in 1..Len(kept) |-> GetAgent(st, kept[k]).target]

\* The targets, of the agents at the indices, that a handler's loop sends
\* keys to: those that exist and need attention.
AttentionTargets(st, idxs) ==
    LET Keep(i) == HasAgent(st, i) /\ NeedsAttention(GetAgent(st, i).status)
        kept == SelectSeq(idxs, Keep)
    IN [k \in 1..Len(kept) |-> GetAgent(st, kept[k]).target]

\* The targets of the agents at the indices that exist.
ExistingTargets(st, idxs) ==
    LET Keep(i) == HasAgent(st, i)
        kept == SelectSeq(idxs, Keep)
    IN [k \in 1..Len(kept) |-> GetAgent(st, kept[k]).target]

AllIndices(st) == [k \in 1..Len(st.agents) |-> k - 1]

\* AppState::set_error, clear_error, flash, clear_selection, take_input
SetError(st, message) == [st EXCEPT !.last_error = message]
ClearError(st) == [st EXCEPT !.last_error = None]
FlashMessage(st, message) == [st EXCEPT !.flash_message = message]
ClearSelection(st) == [st EXCEPT !.selected_agents = {}]
TakeInput(st) == [st EXCEPT !.input_buffer = <<>>]

\* AppState::select_next
SelectNext(st) ==
    IF st.agents # <<>>
    THEN [st EXCEPT !.selected_index = (st.selected_index + 1) % Len(st.agents)]
    ELSE st

\* AppState::select_prev
SelectPrev(st) ==
    IF st.agents # <<>>
    THEN [st EXCEPT !.selected_index = IF st.selected_index = 0 THEN Len(st.agents) - 1
                                       ELSE st.selected_index - 1]
    ELSE st

\* AppState::select_agent
SelectAgent(st, index) ==
    IF index < Len(st.agents) THEN [st EXCEPT !.selected_index = index] ELSE st

\* AppState::toggle_selection
ToggleSelection(st) ==
    IF st.selected_index \in st.selected_agents
    THEN [st EXCEPT !.selected_agents = st.selected_agents \ {st.selected_index}]
    ELSE [st EXCEPT !.selected_agents = st.selected_agents \cup {st.selected_index}]

\* AppState::select_all
SelectAll(st) ==
    [st EXCEPT !.selected_agents = st.selected_agents \cup {i - 1 : i \in 1..Len(st.agents)}]

\* keysOk[c] is whether the c-th tmux call of a handler succeeds: the first
\* of the first n calls that fails, 0 if none does.
FirstFailure(keysOk, n) ==
    LET bad == {c \in 1..n : ~keysOk[c]}
    IN IF bad = {} THEN 0 ELSE CHOOSE c \in bad : \A d \in bad : c <= d

\* The loop of a key handler over the targets, two send_keys calls for each
\* (the key, then Enter), left at the first call that fails: the calls made,
\* the targets done, and which of the two calls failed (0 if none).
KeySend(targets, keysOk) ==
    LET f == FirstFailure(keysOk, 2 * Len(targets))
    IN [calls |-> IF f = 0 THEN 2 * Len(targets) ELSE f,
        sent |-> SubSeq(targets, 1, IF f = 0 THEN Len(targets) ELSE (f + 1) \div 2),
        failed |-> f # 0,
        done |-> IF f = 0 THEN Len(targets) ELSE (f - 1) \div 2,
        at |-> IF f = 0 THEN 0 ELSE IF f % 2 = 1 THEN 1 ELSE 2]

\* The loop of a mouse handler over the targets: `let _ =` drops the result
\* of each call and the loop goes on.
MouseSend(targets, keysOk) ==
    [calls |-> 2 * Len(targets),
     sent |-> targets,
     failed |-> FirstFailure(keysOk, 2 * Len(targets)) # 0]

\* The error a key handler sets for the call that failed.
ErrorAt(st, at, first, second) ==
    IF at = 1 THEN SetError(st, first)
    ELSE IF at = 2 THEN SetError(st, second)
    ELSE st

\* What a handler leaves: the state, the tmux calls made, whether one
\* failed, and the targets send_keys was called for.
Outcome(st, calls, failed, sent) ==
    [st |-> st, calls |-> calls, failed |-> failed, sent |-> sent]

\* Action::Approve
KeyApprove(st, keysOk) ==
    LET r == KeySend(AttentionTargets(st, GetOperationIndices(st)), keysOk)
        e == ErrorAt(st, r.at, "Failed to approve", "Failed to send Enter")
        f == IF r.done > 0 THEN FlashMessage(e, "Approved") ELSE e
    IN Outcome(ClearSelection(f), r.calls, r.failed, r.sent)

\* Action::Reject
KeyReject(st, keysOk) ==
    LET r == KeySend(AttentionTargets(st, GetOperationIndices(st)), keysOk)
        e == ErrorAt(st, r.at, "Failed to reject", "Failed to send Enter")
    IN Outcome(ClearSelection(e), r.calls, r.failed, r.sent)

\* Action::ApproveAll
KeyApproveAll(st, keysOk) ==
    LET r == KeySend(AttentionTargets(st, AllIndices(st)), keysOk)
        e == ErrorAt(st, r.at, "Failed to approve target", "Failed to send Enter to target")
    IN Outcome(e, r.calls, r.failed, r.sent)

\* Action::FocusPane
KeyFocusPane(st, keysOk) ==
    IF ~HasAgent(st, st.selected_index) THEN Outcome(st, 0, FALSE, <<>>)
    ELSE IF keysOk[1] THEN Outcome(st, 1, FALSE, <<>>)
    ELSE Outcome(SetError(st, "Failed to focus"), 1, TRUE, <<>>)

\* Action::SendInput
KeySendInput(st, keysOk) ==
    IF st.input_buffer = <<>> \/ ~HasAgent(st, st.selected_index)
    THEN Outcome(TakeInput(st), 0, FALSE, <<>>)
    ELSE LET to == <<GetAgent(st, st.selected_index).target>>
         IN IF ~keysOk[1]
            THEN Outcome(SetError(TakeInput(st), "Failed to send input"), 1, TRUE, to)
            ELSE IF ~keysOk[2]
            THEN Outcome(SetError(TakeInput(st), "Failed to send Enter"), 2, TRUE, to)
            ELSE Outcome(FlashMessage(TakeInput(st), "Sent"), 2, FALSE, to)

\* Action::SendInputToAll: the Enter is sent after a text that was sent, and
\* a text that failed is passed over.
KeySendInputToAll(st, keysOk) ==
    IF st.input_buffer = <<>> THEN Outcome(TakeInput(st), 0, FALSE, <<>>)
    ELSE LET targets == ExistingTargets(st, GetOperationIndices(st))
             sent == {k \in 1..Len(targets) : keysOk[2 * k - 1]}
             failed == \E k \in 1..Len(targets) :
                          ~keysOk[2 * k - 1] \/ ~keysOk[2 * k]
             t == TakeInput(st)
         IN Outcome(IF sent # {} THEN FlashMessage(t, "Sent") ELSE t,
                    Len(targets) + Cardinality(sent), failed, targets)

\* Action::SendNumber
KeySendNumber(st, keysOk) ==
    IF ~HasAgent(st, st.selected_index) THEN Outcome(st, 0, FALSE, <<>>)
    ELSE LET to == <<GetAgent(st, st.selected_index).target>>
         IN IF ~keysOk[1] THEN Outcome(SetError(st, "Failed to send number"), 1, TRUE, to)
            ELSE IF ~keysOk[2] THEN Outcome(SetError(st, "Failed to send Enter"), 2, TRUE, to)
            ELSE Outcome(st, 2, FALSE, to)

\* Action::InputChar
KeyInputChar(st, c) == [st EXCEPT !.input_buffer = Append(st.input_buffer, c)]

\* The match on the action of a key event.
HandleAction(action, st, keysOk) ==
    CASE action = "Approve" -> KeyApprove(st, keysOk)
      [] action = "Reject" -> KeyReject(st, keysOk)
      [] action = "ApproveAll" -> KeyApproveAll(st, keysOk)
      [] action = "FocusPane" -> KeyFocusPane(st, keysOk)
      [] action = "SendInput" -> KeySendInput(st, keysOk)
      [] action = "SendInputToAll" -> KeySendInputToAll(st, keysOk)
      [] action = "SendNumber" -> KeySendNumber(st, keysOk)
      [] action = "InputChar" -> Outcome(KeyInputChar(st, "g"), 0, FALSE, <<>>)
      [] action = "Refresh" -> Outcome(ClearError(st), 0, FALSE, <<>>)
      [] action = "NextAgent" -> Outcome(SelectNext(st), 0, FALSE, <<>>)
      [] action = "PrevAgent" -> Outcome(SelectPrev(st), 0, FALSE, <<>>)
      [] action = "ToggleSelection" -> Outcome(ToggleSelection(st), 0, FALSE, <<>>)
      [] action = "SelectAll" -> Outcome(SelectAll(st), 0, FALSE, <<>>)
      [] action = "ClearSelection" -> Outcome(ClearSelection(st), 0, FALSE, <<>>)

\* FooterButton::Approve and FooterButton::Reject
MouseApprove(st, keysOk) ==
    LET r == MouseSend(AttentionTargets(st, GetOperationIndices(st)), keysOk)
    IN Outcome(ClearSelection(st), r.calls, r.failed, r.sent)

\* FooterButton::ApproveAll
MouseApproveAll(st, keysOk) ==
    LET r == MouseSend(AttentionTargets(st, AllIndices(st)), keysOk)
    IN Outcome(st, r.calls, r.failed, r.sent)

\* FooterButton::Focus
MouseFocus(st, keysOk) ==
    IF HasAgent(st, st.selected_index) THEN Outcome(st, 1, ~keysOk[1], <<>>)
    ELSE Outcome(st, 0, FALSE, <<>>)

\* A click in the sidebar on the row given: the index estimated from the
\* row is selected when an agent stands there.
MouseSidebar(st, estimated_idx) ==
    IF Len(st.agents) > 0 /\ estimated_idx < Len(st.agents)
    THEN SelectAgent(st, estimated_idx) ELSE st

\* The match on a mouse event: a click on a footer button or in the
\* sidebar (Row0 and Row1 are its first rows), and the wheel.
HandleButton(button, st, keysOk) ==
    CASE button = "Approve" -> MouseApprove(st, keysOk)
      [] button = "Reject" -> MouseApprove(st, keysOk)
      [] button = "ApproveAll" -> MouseApproveAll(st, keysOk)
      [] button = "Focus" -> MouseFocus(st, keysOk)
      [] button = "ToggleSelect" -> Outcome(ToggleSelection(st), 0, FALSE, <<>>)
      [] button = "Row0" -> Outcome(MouseSidebar(st, 0), 0, FALSE, <<>>)
      [] button = "Row1" -> Outcome(MouseSidebar(st, 1), 0, FALSE, <<>>)
      [] button = "ScrollUp" -> Outcome(SelectPrev(st), 0, FALSE, <<>>)
      [] button = "ScrollDown" -> Outcome(SelectNext(st), 0, FALSE, <<>>)

Actions == {"Approve", "Reject", "ApproveAll", "FocusPane", "SendInput",
            "SendInputToAll", "SendNumber", "InputChar", "Refresh"}
Buttons == {"Approve", "Reject", "ApproveAll", "Focus"}

\* The outcomes of the tmux calls a handler can make on the agents shown.
KeysOutcomes == [1..2 * (IF Len(state.agents) = 0 THEN 1 ELSE Len(state.agents)) -> BOOLEAN]

\* An iteration of run_loop whose select takes the timeout arm and finds one
\* event pending: `via` is "key" or "mouse", `what` the action or the button.
HandleEvent(via, what, keysOk) ==
    \E o \in {IF via = "key" THEN HandleAction(what, state, keysOk)
                             ELSE HandleButton(what, state, keysOk)} :
        /\ rx_open
        /\ render' = Draw
        /\ state' = o.st
        /\ ui_last' = Handled(ui_last.n + 1, what, via, o.calls, o.failed, o.sent,
                              ExistingTargets(o.st, GetOperationIndices(o.st)))
        /\ UNCHANGED <<agentos_client, now, last_active, api_fail_count, was_connected,
                       analytics_counter, factory_rx, update, task, rx_open, sent_count,
                       active_seen, cyc, since_try, skip_run,
                       poll_interval, process_cache, ps_last, chan, rx_last, probe, scan>>

\* run_app before the monitor task is spawned.
InitApp(tmuxAvailable) ==
    /\ chan = <<>>
    /\ state = NewAppState(tmuxAvailable)
    /\ rx_last = [cycle |-> 0, agents |-> <<>>]
    /\ render = [drawn |-> FALSE]
    /\ ui_last = NoHandler

\* tx.send(update).await at the end of the cycle: the update sent enters the
\* channel.
SendUpdate == chan' = IF rx_open THEN Send(chan, update') ELSE chan

\* The presentation loop is not followed: it takes each update as it is sent
\* and the channel stays empty.
Delivered == UNCHANGED chan

\* MonitorTask::new and the statics, the poll interval apart.
InitTask ==
    /\ agentos_client \in BOOLEAN
    /\ process_cache = NewProcessTreeCache(0)
    /\ ps_last = -1
    /\ now = 0
    /\ last_active = <<>>
    /\ api_fail_count = 0
    /\ was_connected = FALSE
    /\ analytics_counter = 0
    /\ factory_rx = <<>>
    /\ update = NoUpdate
    /\ task = "running"
    /\ rx_open = TRUE
    /\ sent_count = 0
    /\ active_seen = <<>>
    /\ cyc = [at |-> -1, ps_query |-> FALSE]
    /\ since_try = -1
    /\ skip_run = 0

\* The default configuration, with tmux running at the start.
Init == InitTask /\ poll_interval = PollIntervalMs /\ InitApp(TRUE) /\ probe = NoProbe /\ scan = NoScan

\* ------------------------------------------------------------ environments
Session == <<"m">>
\* tmux lists the panes of a session by window index, in numeric order.
Windows == <<2, 10>>

Pane(window, c) ==
    [session |-> Session, window |-> window, pane |-> 0, pid |-> c.pid + window,
     path |-> c.path, parser |-> c.parser, capture_ok |-> c.capture_ok,
     parsed |-> c.parsed, title |-> c.title,
     title_has_spinner |-> TitleHasSpinner(c.title)]

Content(pid, path, parser, capture_ok, parsed, title) ==
    [pid |-> pid, path |-> path, parser |-> parser, capture_ok |-> capture_ok,
     parsed |-> parsed, title |-> title]

\* Pane titles: plain text, text with a spinner glyph, and text with a
\* braille character that is no spinner glyph.
PlainTitle == <<"~">>
SpinnerTitle == <<"U+280B", " ", "c">>
BrailleTitle == <<"U+2802", " ", "c">>

ListFailed == [ok |-> FALSE, panes |-> <<>>]

\* The listings of up to two panes, the contents of the pane in the first
\* window ranging over `first`, of the pane in the second over `second`.
Listings(first, second) ==
    {[ok |-> TRUE, panes |-> <<>>]}
    \cup {[ok |-> TRUE, panes |-> <<Pane(Windows[1], c)>>] : c \in first}
    \cup {[ok |-> TRUE, panes |-> <<Pane(Windows[2], d)>>] : d \in second}
    \cup {[ok |-> TRUE, panes |-> <<Pane(Windows[1], c), Pane(Windows[2], d)>>] :
            c \in first, d \in second}

RemotePane(n, project, workspace, status, pty_running) ==
    [pane |-> n, theme |-> <<"x">>, project |-> project, workspace |-> workspace,
     status |-> status, pty_running |-> pty_running, task |-> "task"]

ApiFailed == [ok |-> FALSE, panes |-> <<>>]
ApiOk(panes) == [ok |-> TRUE, panes |-> panes]

QueueAnswers == {[ok |-> FALSE, tasks |-> <<>>], [ok |-> TRUE, tasks |-> <<"queued">>]}

CanStart(maxIndex, work) == PollIndex(now + poll_interval * (1 + work)) <= maxIndex

\* Spec: the loop with one idle Claude Code pane at most per window, and an
\* API that fails, or answers with no pane or one running pane.
LoopContents == {Content(41, "/a", "ClaudeCode", TRUE, Idle, PlainTitle)}
LoopApi == {ApiFailed, ApiOk(<<>>), ApiOk(<<RemotePane(1, "/c", NoWorkspace, "active", TRUE)>>)}

\* fetch_dashboard is called on every AnalyticsEvery-th cycle only.
DashAnswers == IF (analytics_counter + 1) % AnalyticsEvery = 0 THEN BOOLEAN ELSE {FALSE}

SubmitAnswers == [1..Len(factory_rx) -> BOOLEAN]

PollLoop ==
    \E listing \in Listings(LoopContents, LoopContents) \cup {ListFailed}, panesResp \in LoopApi,
       queueResp \in QueueAnswers, submitOk \in SubmitAnswers,
       dashOk \in DashAnswers, work \in 0..MaxWorkIntervals :
        /\ CanStart(MaxPollIndex, work)
        /\ RunCycle(listing, panesResp, queueResp, submitOk, dashOk, TRUE, work)
        /\ Delivered

Submit == \E request \in Requests : SubmitFactoryCommand(request)

Next == PollLoop \/ Submit \/ Quit

Spec == Init /\ [][Next]_vars

\* SpecPanes: no AgentOS client is configured; each pane is unmatched, or
\* fails to capture, or parses to any status with or without a title spinner.
ParsedStatuses == {Idle, Unknown, ErrorStatus, AwaitingApproval, Processing("parsed")}

PanesContents ==
    {Content(4000, "/a", NoParser, TRUE, Idle, PlainTitle),
     Content(4000, "/a", "ClaudeCode", FALSE, Idle, PlainTitle)}
    \cup {Content(4000, "/a", "ClaudeCode", TRUE, st, PlainTitle) : st \in ParsedStatuses}
    \cup {Content(4000, "/a", "ClaudeCode", TRUE, st, SpinnerTitle) :
            st \in {Idle, Unknown, AwaitingApproval, ErrorStatus}}
    \cup {Content(4000, "/a", "ClaudeCode", TRUE, Idle, BrailleTitle)}

\* The pane of the second window is idle or busy.
OtherPaneContents ==
    {Content(4000, "/a", "CodexCli", TRUE, st, PlainTitle) : st \in {Idle, Processing("parsed")}}

InitPanes == Init /\ agentos_client = FALSE

PollPanes ==
    \E listing \in Listings(PanesContents, OtherPaneContents) \cup {ListFailed},
       work \in 0..MaxWorkIntervals :
        /\ CanStart(MaxPanesPollIndex, work)
        /\ RunCycle(listing, ApiFailed, [ok |-> FALSE, tasks |-> <<>>],
                    [i \in 1..Len(factory_rx) |-> FALSE], FALSE, TRUE, work)
        /\ Delivered

NextPanes == PollPanes \/ Submit

SpecPanes == InitPanes /\ [][NextPanes]_vars

\* SpecMerge: a client is configured; panes of two tools in two directories,
\* and an API that answers with up to two panes; every cycle lasts exactly one
\* poll interval and no pipeline command is submitted.
MergeContents ==
    {Content(4000, path, parser, TRUE, Idle, PlainTitle) :
        path \in {"/a", "/b"}, parser \in {"ClaudeCode", "CodexCli"}}

MergeRemotes(n) ==
    {RemotePane(n, project, w[1], w[2], w[3]) :
        project \in {"/a", "--"},
        w \in {<<NoWorkspace, "active", TRUE>>, <<"/b", "idle", FALSE>>}}

MergeApi ==
    {ApiFailed, ApiOk(<<>>)}
    \cup {ApiOk(<<p>>) : p \in MergeRemotes(1)}
    \cup {ApiOk(<<p, q>>) :
            p \in {RemotePane(2, "/a", NoWorkspace, "active", TRUE),
                   RemotePane(2, "--", "/b", "idle", FALSE)},
            q \in {RemotePane(1, "/a", NoWorkspace, "active", TRUE),
                   RemotePane(1, "/a", "/b", "idle", FALSE)}}

\* The pane of the second window runs either tool in /a.
MergeOtherContents ==
    {Content(4000, "/a", parser, TRUE, Idle, PlainTitle) : parser \in {"ClaudeCode", "CodexCli"}}

InitMerge == Init /\ agentos_client = TRUE

PollMerge ==
    \E listing \in Listings(MergeContents, MergeOtherContents) \cup {ListFailed},
       panesResp \in MergeApi :
        /\ CanStart(MaxMergePollIndex, 0)
        /\ RunCycle(listing, panesResp, [ok |-> TRUE, tasks |-> <<"queued">>],
                    <<>>, FALSE, TRUE, 0)
        /\ Delivered

NextMerge == PollMerge

SpecMerge == InitMerge /\ [][NextMerge]_vars

\* SpecBackoff: a client is configured, tmux shows no agent pane, and the
\* API fails or answers with no pane, over a long horizon; no pipeline command
\* is submitted and fetch_dashboard succeeds when called.
BackoffApi == {ApiFailed, ApiOk(<<>>)}

PollBackoff ==
    \E panesResp \in BackoffApi, work \in 0..MaxWorkIntervals :
        /\ CanStart(MaxBackoffPollIndex, work)
        /\ RunCycle([ok |-> TRUE, panes |-> <<>>], panesResp,
                    [ok |-> TRUE, tasks |-> <<>>], <<>>, TRUE, TRUE, work)
        /\ Delivered

NextBackoff == PollBackoff

SpecBackoff == InitMerge /\ [][NextBackoff]_vars

\* SpecRetry: the loop of SpecBackoff, which goes on to its next cycle as
\* long as the horizon allows: run sleeps for the poll interval and loops.
SpecRetry == InitMerge /\ [][NextBackoff]_vars /\ WF_vars(PollBackoff)

\* SpecIntervals: a client is configured; the poll interval is any of three
\* (0 ms included); the pane listing fails or shows one Claude Code pane whose
\* capture fails or succeeds; `ps` fails or succeeds; the API fails or answers
\* with no pane.
Intervals == {0, 100, PollIntervalMs}

InitIntervals ==
    /\ InitTask /\ agentos_client = TRUE /\ poll_interval \in Intervals
    /\ InitApp(TRUE) /\ probe = NoProbe /\ scan = NoScan

IntervalListings ==
    {ListFailed}
    \cup {[ok |-> TRUE, panes |-> <<Pane(Windows[1], c)>>] :
            c \in {Content(4000, "/a", "ClaudeCode", ok, Idle, PlainTitle) : ok \in BOOLEAN}}

PollIntervals ==
    \E listing \in IntervalListings, panesResp \in BackoffApi, psOk \in BOOLEAN,
       work \in 0..MaxWorkIntervals :
        /\ analytics_counter < MaxIntervalCycles
        /\ RunCycle(listing, panesResp, [ok |-> FALSE, tasks |-> <<>>], <<>>, FALSE,
                    psOk, work)
        /\ Delivered

PanicIntervals ==
    \E listing \in IntervalListings, psOk \in BOOLEAN :
        /\ analytics_counter < MaxIntervalCycles
        /\ RunCyclePanics(listing, <<>>, psOk)

NextIntervals == PollIntervals \/ PanicIntervals

SpecIntervals == InitIntervals /\ [][NextIntervals]_vars

\* SpecChannel: no client is configured and the listing always shows one idle
\* Claude Code pane; the presentation loop receives at any time or not at
\* all, so that the channel fills; the operator quits at any time.
MaxChannelCycles == 34

InitChannel == Init /\ agentos_client = FALSE

ChannelListing ==
    [ok |-> TRUE,
     panes |-> <<Pane(Windows[1], Content(4000, "/a", "ClaudeCode", TRUE, Idle, PlainTitle))>>]

PollChannel ==
    /\ analytics_counter < MaxChannelCycles
    /\ SendCompletes(chan, rx_open)
    /\ RunCycle(ChannelListing, ApiFailed, [ok |-> FALSE, tasks |-> <<>>], <<>>, FALSE,
                TRUE, 0)
    /\ SendUpdate

NextChannel == PollChannel \/ ReceiveUpdate \/ Quit

SpecChannel == InitChannel /\ [][NextChannel]_vars

\* SpecUI: no client is configured; the listing shows one Claude Code pane
\* that is idle or awaits approval; the presentation loop receives
\* updates and handles key and mouse events whose tmux calls succeed or fail.
MaxUICycles == 3
MaxUIEvents == 2

InitUI == InitChannel

UIListings ==
    {[ok |-> TRUE, panes |-> <<Pane(Windows[1], c)>>] :
        c \in {Content(4000, "/a", "ClaudeCode", TRUE, parsed, PlainTitle) :
                  parsed \in {Idle, AwaitingApproval}}}

PollUI ==
    \E listing \in UIListings :
        /\ analytics_counter < MaxUICycles
        /\ SendCompletes(chan, rx_open)
        /\ RunCycle(listing, ApiFailed, [ok |-> FALSE, tasks |-> <<>>], <<>>, FALSE,
                    TRUE, 0)
        /\ SendUpdate

KeyEvent ==
    \E action \in Actions, keysOk \in KeysOutcomes :
        ui_last.n < MaxUIEvents /\ HandleEvent("key", action, keysOk)

MouseEvent ==
    \E button \in Buttons, keysOk \in KeysOutcomes :
        ui_last.n < MaxUIEvents /\ HandleEvent("mouse", button, keysOk)

NextUI == PollUI \/ ReceiveUpdate \/ KeyEvent \/ MouseEvent \/ Quit

SpecUI == InitUI /\ [][NextUI]_vars

\* SpecSelection: no client; tmux lists none, one or both of two panes, in
\* the statuses below (a pane that turns Idle after an approval shows as
\* Processing); the presentation loop receives the updates and handles the
\* selection and approval events by key and by mouse; tmux calls succeed.
MaxSelectionCycles == 2
MaxSelectionEvents == 2

InitSelection == InitChannel

SelectionListings ==
    LET C(parsed) == Content(4000, "/a", "ClaudeCode", TRUE, parsed, PlainTitle)
    IN {[ok |-> TRUE, panes |-> <<>>],
        [ok |-> TRUE, panes |-> <<Pane(Windows[1], C(AwaitingApproval))>>],
        [ok |-> TRUE, panes |-> <<Pane(Windows[2], C(AwaitingApproval))>>],
        [ok |-> TRUE, panes |-> <<Pane(Windows[1], C(Idle)), Pane(Windows[2], C(AwaitingApproval))>>],
        [ok |-> TRUE, panes |-> <<Pane(Windows[1], C(ErrorStatus)), Pane(Windows[2], C(Unknown))>>],
        [ok |-> TRUE, panes |-> <<Pane(Windows[1], C(AwaitingApproval)), Pane(Windows[2], C(AwaitingApproval))>>]}

SelectionKeys == {"Approve", "Reject", "ApproveAll", "SendNumber", "NextAgent", "PrevAgent",
                  "ToggleSelection", "SelectAll", "ClearSelection"}
SelectionClicks == {"Approve", "Reject", "ApproveAll", "ToggleSelect", "Row0", "Row1",
                    "ScrollUp", "ScrollDown"}

PollSelection ==
    \E listing \in SelectionListings :
        /\ analytics_counter < MaxSelectionCycles
        /\ SendCompletes(chan, rx_open)
        /\ RunCycle(listing, ApiFailed, [ok |-> FALSE, tasks |-> <<>>], <<>>, FALSE,
                    TRUE, 0)
        /\ SendUpdate

KeySelection ==
    \E action \in SelectionKeys :
        ui_last.n < MaxSelectionEvents /\ HandleEvent("key", action, [c \in 1..4 |-> TRUE])

MouseSelection ==
    \E button \in SelectionClicks :
        ui_last.n < MaxSelectionEvents /\ HandleEvent("mouse", button, [c \in 1..4 |-> TRUE])

NextSelection == PollSelection \/ ReceiveUpdate \/ KeySelection \/ MouseSelection

SpecSelection == InitSelection /\ [][NextSelection]_vars

\* SpecFactory: a client is configured or not; up to two pipeline requests
\* wait in the factory channel when a cycle starts; submit_factory succeeds
\* or fails for each; the API fails or answers with no pane.
MaxFactoryPollIndex == 3
MaxFactoryPending == 2

FactoryRequests == {"build", "test"}

InitFactory == Init

PollFactory ==
    \E panesResp \in BackoffApi, submitOk \in SubmitAnswers :
        /\ CanStart(MaxFactoryPollIndex, 0)
        /\ RunCycle(ChannelListing, panesResp, [ok |-> FALSE, tasks |-> <<>>], submitOk,
                    FALSE, TRUE, 0)
        /\ Delivered

EnqueueFactory == \E request \in FactoryRequests : Enqueue(request, MaxFactoryPending)

NextFactory == PollFactory \/ EnqueueFactory

SpecFactory == InitFactory /\ [][NextFactory]_vars

\* SpecParsers: the registry is asked for the parser of a pane whose
\* command, title, command line and child commands are drawn from the
\* strings below: names of the four agents in either case, version numbers
\* and near misses, the title icon, and strings no parser knows.
MaxChildCommands == 1

ProbeCommands ==
    {<<"n", "o", "d", "e">>,
     <<"z", "s", "h">>,
     <<"2", ".", "1", ".", "1", "1">>,
     <<".", "1">>,
     <<"2">>,
     <<"2", ".", "x">>,
     <<"c", "o", "d", "e", "x">>,
     <<"o", "p", "e", "n", "c", "o", "d", "e">>,
     <<"g", "e", "m", "i", "n", "i">>,
     <<"C", "l", "a", "u", "d", "e">>}
ProbeTitles ==
    {<<>>,
     <<"C", "l", "a", "u", "d", "e", " ", "C", "o", "d", "e">>,
     <<"U+2733", " ", "t">>,
     <<"O", "p", "e", "n", "A", "I">>,
     <<"~">>}
ProbeCmdlines ==
    {<<>>,
     <<"-", "z", "s", "h">>,
     <<"/", "u", "s", "r", "/", "b", "i", "n", "/", "c", "l", "a", "u", "d", "e">>,
     <<"o", "p", "e", "n", "-", "c", "o", "d", "e">>,
     <<"g", "o", "o", "g", "l", "e">>,
     <<"c", "o", "d", "e", "x", " ", "-", "-", "a", "n", "t", "h", "r", "o", "p", "i", "c">>}
ProbeChildren ==
    {<<"c", "l", "a", "u", "d", "e", " ", "-", "c">>,
     <<"g", "e", "m", "i", "n", "i">>,
     <<"v", "i", "m">>}

RECURSIVE SeqsUpTo(_, _)
SeqsUpTo(S, n) ==
    IF n = 0 THEN {<<>>}
    ELSE SeqsUpTo(S, n - 1)
         \cup {Append(q, x) : q \in {r \in SeqsUpTo(S, n - 1) : Len(r) = n - 1}, x \in S}

ProbePanes ==
    [command : ProbeCommands, title : ProbeTitles, cmdline : ProbeCmdlines,
     child_commands : SeqsUpTo(ProbeChildren, MaxChildCommands)]

InitParsers ==
    /\ InitTask /\ agentos_client = FALSE /\ poll_interval = PollIntervalMs
    /\ InitApp(TRUE)
    /\ probe \in {[asked |-> TRUE, pane |-> pane, found |-> "unset"] : pane \in ProbePanes}
    /\ scan = NoScan

NextParsers == FindParser

SpecParsers == InitParsers /\ [][NextParsers]_vars

\* ------------------------------------------------------------ captures
\* Every parser reads each of the captures below: blank captures, cues of
\* the four tools, context lines, and numbered choices with what may
\* stand between and around them.  Line30 is 30 bytes long, Line31 is 31.
Line30 == <<"T", "h", "e", " ", "o", "p", "t", "i", "o", "n", " ", "a", "b", "o", "v", "e", " ", "i", "s", " ", "t", "h", "e", " ", "d", "e", "f", "a", "u", "l", "t">>
Line31 == <<"T", "h", "e", " ", "o", "p", "t", "i", "o", "n", "s", " ", "a", "b", "o", "v", "e", " ", "a", "r", "e", " ", "t", "h", "e", " ", "u", "s", "u", "a", "l">>
Filler == <<"o", "k">>
PromptLine == <<"U+276F", " ">>

RECURSIVE Repeat(_, _)
Repeat(line, n) == IF n = 0 THEN <<>> ELSE <<line>> \o Repeat(line, n - 1)

FixedCaptures ==
    {<<>>,
     <<" ">>,
     <<"\n">>,
     <<" ", "\n", "\t", " ", "\n">>,
     <<"T", "h", "i", "n", "k", "i", "n", "g", " ", "a", "b", "o", "u", "t", " ", "t", "h", "e", " ", "p", "r", "o", "b", "l", "e", "m", ".", ".", ".">>,
     <<"S", "o", "m", "e", " ", "p", "r", "e", "v", "i", "o", "u", "s", " ", "o", "u", "t", "p", "u", "t", "\n", "\n", "U+276F", " ">>,
     <<"C", "o", "n", "t", "e", "x", "t", " ", "l", "e", "f", "t", " ", "u", "n", "t", "i", "l", " ", "a", "u", "t", "o", "-", "c", "o", "m", "p", "a", "c", "t", ":", " ", "4", "2", "%">>,
     <<"C", "o", "n", "t", "e", "x", "t", " ", "l", "e", "f", "t", " ", "u", "n", "t", "i", "l", " ", "a", "u", "t", "o", "-", "c", "o", "m", "p", "a", "c", "t", ":", " ", "1", "5", "0", "%">>,
     <<"C", "o", "n", "t", "e", "x", "t", " ", "l", "e", "f", "t", ":", " ", "0", "%">>,
     <<"C", "o", "n", "t", "e", "x", "t", " ", "l", "e", "f", "t", ":", " ", "1", "0", "0", "%">>,
     <<"C", "o", "n", "t", "e", "x", "t", " ", "l", "e", "f", "t", ":", " ", "1", "0", "1", "%">>,
     <<"C", "o", "n", "t", "e", "x", "t", " ", "l", "e", "f", "t", ":", " ", "2", "5", "5", "%">>,
     <<"C", "o", "n", "t", "e", "x", "t", " ", "l", "e", "f", "t", ":", " ", "2", "5", "6", "%">>,
     <<"C", "o", "n", "t", "e", "x", "t", " ", "r", "e", "m", "a", "i", "n", "i", "n", "g", " ", "1", "2", "3", "4", "%">>,
     <<"c", "o", "n", "t", "e", "x", "t", " ", " ", "L", "E", "F", "T", " ", "1", "2", " ", "3", "4", "%", "\n", ">", " ">>,
     <<"C", "o", "n", "t", "e", "x", "t", " ", "l", "e", "f", "t", "\n", "7", "%">>,
     <<"A", "l", "l", "o", "w", "?", " ", "[", "y", "/", "n", "]">>,
     <<"D", "o", " ", "y", "o", "u", " ", "w", "a", "n", "t", " ", "t", "o", " ", "p", "r", "o", "c", "e", "e", "d", "?", "\n", " ", " ", "Y", "e", "s", "\n", " ", " ", "Y", "e", "s", ",", " ", "a", "n", "d", " ", "a", "s", "k", " ", "a", "g", "a", "i", "n", "\n", " ", " ", "N", "o">>,
     <<"N", "o", "\n", "x", "\n", "x", "\n", "x", "\n", "x", "\n", "Y", "e", "s">>,
     <<"G", "e", "n", "e", "r", "a", "t", "i", "n", "g", " ", "c", "o", "d", "e", "\n">>,
     <<"W", "o", "r", "k", "i", "n", "g", " ", "o", "n", " ", "i", "t">>,
     <<"R", "e", "a", "d", "y", "\n", ">", " ">>,
     <<"d", "o", "n", "e", "\n", "$", " ", "\n">>,
     <<"P", "l", "e", "a", "s", "e", " ", "c", "o", "n", "f", "i", "r", "m">>,
     <<"W", "h", "i", "c", "h", " ", "o", "n", "e", "?", "\n", "1", ".", " ", "A", "\n", "2", ".", " ", "B", "U+FF08", "x", "U+FF09", "\n", "\n", "U+276F", " ">>,
     <<"1", ".", " ", "A", "\n", "1", ".", " ", "A", "\n", "2", ".", " ", "B">>,
     <<"1", ".", " ", "A", "\n", "3", ".", " ", "C", "\n", "1", ".", " ", "X", "\n", "2", ".", " ", "Y">>,
     <<"1", ".", " ", "A", "\n", "9", "9", "9", "9", "9", "9", "9", "9", "9", "9", "9", ".", " ", "b", "i", "g", "\n", "2", ".", " ", "B">>,
     <<"0", "1", ".", " ", "A", "\n", "2", ".", " ", " ", "\n", " ", "3", ".", " ", "C">>,
     <<"U+276F", " ", "1", ".", " ", "Y", "e", "s", "\n", " ", " ", "2", ".", " ", "N", "o">>,
     <<"1", ".", " ", "A", "\n", "2", ".", " ", "B", "\n", ">", " ", "n", "\n">>,
     JoinLines(<<<<"1", ".", " ", "A">>, Line30, <<"2", ".", " ", "B">>>>),
     JoinLines(<<<<"1", ".", " ", "X">>>> \o Repeat(<<>>, 12) \o <<<<"2", ".", " ", "Y">>>> \o Repeat(Filler, 7)),
     JoinLines(<<<<"1", ".", " ", "X">>>> \o Repeat(<<>>, 11) \o <<<<"2", ".", " ", "Y">>>> \o Repeat(Filler, 7))}

\* The primary parser also reads every capture of up to MaxBodyLines of
\* the lines below, alone or followed by 7 or 8 filler lines and a prompt.
MaxBodyLines == 3

BodyLines ==
    {<<"1", ".", " ", "Y", "e", "s">>, <<" ", " ", "2", ".", " ", "N", "o">>, <<"3", ".", " ", "O", "t", "h", "e", "r">>, <<>>, <<"(", "r", "e", "c", "o", "m", "m", "e", "n", "d", "e", "d", ")">>, Line31,
     <<"U+2502", " ", "x">>}

Tails == {<<>>, Repeat(Filler, 7) \o <<PromptLine>>, Repeat(Filler, 8) \o <<PromptLine>>}

GeneratedCaptures ==
    {JoinLines(body \o tail) : body \in SeqsUpTo(BodyLines, MaxBodyLines), tail \in Tails}

Scan(parser, content) ==
    [asked |-> TRUE, parser |-> parser, content |-> content, done |-> FALSE,
     status |-> Unknown, context_remaining |-> -1]

InitStatus ==
    /\ InitTask /\ agentos_client = FALSE /\ poll_interval = PollIntervalMs
    /\ InitApp(TRUE)
    /\ probe = NoProbe
    /\ scan \in {Scan(parser, content) :
                    parser \in {Registry[i] : i \in 1..Len(Registry)},
                    content \in FixedCaptures}
             \cup {Scan("ClaudeCode", content) : content \in GeneratedCaptures}

NextStatus == ParseCapture

SpecStatus == InitStatus /\ [][NextStatus]_vars

\* ------------------------------------------------------------ claims
CycleDone == cyc.at >= 0
Snapshot == CycleDone /\ cyc.sent

\* The entry of the last update for a target.
AgentsAt(target) == {i \in 1..Len(update.agents) : update.agents[i].target = target}

\* C1 (SpecPanes): a pane that reaches the hysteresis step Idle is reported
\* Processing when the most recent cycle that classified its target
\* Processing or AwaitingApproval was less than 2000 ms earlier, and Idle when
\* that cycle is 2000 ms or more in the past or there was none; the override
\* is no active classification.
C1_Hysteresis ==
    Snapshot =>
        \A k \in DOMAIN cyc.classified :
            cyc.classified[k].status.kind = "Idle" =>
                \A i \in AgentsAt(cyc.classified[k].target) :
                    update.agents[i].status.kind =
                        IF /\ cyc.classified[k].target \in DOMAIN active_seen
                           /\ cyc.at - active_seen[cyc.classified[k].target]
                                < STATUS_HYSTERESIS_MS
                        THEN "Processing"
                        ELSE "Idle"

\* The boundary of the window: a pane classified Idle exactly 2000 ms after
\* its last active classification, reported Idle.
C1_Witness ==
    /\ Snapshot
    /\ \E k \in DOMAIN cyc.classified :
        /\ cyc.classified[k].status.kind = "Idle"
        /\ cyc.classified[k].target \in DOMAIN active_seen
        /\ cyc.at - active_seen[cyc.classified[k].target] = STATUS_HYSTERESIS_MS
        /\ \E i \in AgentsAt(cyc.classified[k].target) : update.agents[i].status = Idle

\* C2 (SpecBackoff): once 3 failures are counted, two API attempts with no
\* reset of the counter between them are at least 8 poll cycles apart.
C2_BackoffFrequency == CycleDone /\ cyc.gap >= 0 => cyc.gap >= 8

\* C3 (Spec): after a cycle in which fetch_panes succeeded the failure
\* counter is 0.
C3_SuccessResets == CycleDone /\ cyc.attempted /\ cyc.api_up => api_fail_count = 0

\* C4 (SpecMerge): in every snapshot each polled pane has exactly one entry,
\* with the pane's pid and status, and no API-derived entry shares working
\* directory and tool type with a pane-derived entry; once connected, the
\* directory of every visible API pane has a Claude Code entry, and at most
\* one API-derived entry.
C4_MergeDedup ==
    Snapshot =>
        /\ \A k \in DOMAIN cyc.classified :
            /\ Cardinality(AgentsAt(cyc.classified[k].target)) = 1
            /\ \A i \in AgentsAt(cyc.classified[k].target) :
                /\ update.agents[i].pid # 0
                /\ update.agents[i].status = cyc.classified[k].status
        /\ \A i \in LocalAgents(update.agents), j \in RemoteAgents(update.agents) :
            ~(/\ update.agents[i].path = update.agents[j].path
              /\ update.agents[i].agent_type = update.agents[j].agent_type)
        /\ update.agentos_connected =>
            \A path \in cyc.remote_paths :
                /\ \E i \in 1..Len(update.agents) :
                      /\ update.agents[i].path = path
                      /\ update.agents[i].agent_type = "ClaudeCode"
                /\ Cardinality({j \in RemoteAgents(update.agents) :
                                  update.agents[j].path = path}) <= 1

\* The API reported a visible pane in the directory of a Claude Code pane of
\* the same cycle, and the call succeeded.
C4_Witness ==
    /\ Snapshot
    /\ update.agentos_connected
    /\ \E i \in LocalAgents(update.agents) :
        /\ update.agents[i].agent_type = "ClaudeCode"
        /\ update.agents[i].path \in cyc.remote_paths

\* C5 (SpecMerge): the agents of every snapshot are in ascending order of
\* target.
C5_SortedByTarget ==
    Snapshot =>
        \A i \in 1..(Len(update.agents) - 1) :
            StrCmp(update.agents[i].target, update.agents[i + 1].target) <= 0

\* C6 (Spec): a snapshot that is connected after a disconnected one carries
\* the connected flash, and one that is disconnected after a connected one
\* the disconnected flash.
C6_TransitionsNotified ==
    [][(update.sent /\ sent_count' # sent_count) =>
         /\ (~update.agentos_connected /\ update'.agentos_connected
               => update'.flash = Flash("AgentOS connected", ""))
         /\ (update.agentos_connected /\ ~update'.agentos_connected
               => update'.flash = Flash("AgentOS disconnected", ""))]_vars

C8_RemoteWithoutTmux ==
    (Snapshot /\ agentos_client /\ ~cyc.list_ok /\ cyc.fail_before = 0
        /\ cyc.api_up /\ cyc.remote_paths # {}) =>
        /\ update.agentos_connected
        /\ RemoteAgents(update.agents) # {}

\* C9 (SpecPanes): from one snapshot to the next, an agent of the same target
\* keeps its first-seen timestamp and gets a later last-updated timestamp.
C9_FirstSeenStable ==
    [][(update.sent /\ sent_count' # sent_count) =>
         \A i \in 1..Len(update.agents), j \in 1..Len(update'.agents) :
            update.agents[i].target = update'.agents[j].target =>
                /\ update'.agents[j].started_at = update.agents[i].started_at
                /\ update'.agents[j].last_updated > update.agents[i].last_updated]_vars

\* C10 (SpecBackoff): with n > 0 failures counted a cycle calls the API
\* exactly when its poll index is a multiple of 2^min(n,5), and no more than
\* 32 cycles in a row are skipped.
C10_SkipRuleAndCap ==
    /\ (CycleDone /\ cyc.fail_before > 0) =>
          (cyc.attempted <=>
              PollIndex(cyc.at) % (2 ^ Min(cyc.fail_before, 5)) = 0)
    /\ skip_run <= 32

\* C11 (SpecPanes): a spinner glyph in the title turns a parsed Idle or
\* Unknown into Processing before the hysteresis step (the target is stamped
\* active by that cycle and the agent is reported Processing); a parsed
\* AwaitingApproval or Error is never replaced; without a spinner glyph the
\* parsed status reaches the hysteresis step unchanged.
C11_SpinnerOverride ==
    Snapshot =>
        \A k \in DOMAIN cyc.classified :
            LET c == cyc.classified[k]
                spinner == \E i \in 1..Len(c.title) : c.title[i] \in SpinnerGlyphs
            IN  /\ (spinner /\ c.parsed.kind \in {"Idle", "Unknown"}) =>
                    /\ c.status.kind = "Processing"
                    /\ c.target \in DOMAIN last_active
                    /\ last_active[c.target] = cyc.at
                    /\ \A i \in AgentsAt(c.target) :
                          update.agents[i].status.kind = "Processing"
                /\ c.parsed.kind \in {"AwaitingApproval", "Error"} =>
                    /\ c.status = c.parsed
                    /\ \A i \in AgentsAt(c.target) : update.agents[i].status = c.parsed
                /\ ~spinner => c.status = c.parsed

\* A pane awaiting approval under a title with a spinner glyph, reported as
\* awaiting approval.
C11_Witness ==
    /\ Snapshot
    /\ \E k \in DOMAIN cyc.classified :
        /\ cyc.classified[k].title = SpinnerTitle
        /\ cyc.classified[k].parsed = AwaitingApproval
        /\ \E i \in AgentsAt(cyc.classified[k].target) :
              update.agents[i].status = AwaitingApproval

\* C12 (SpecPanes): a cycle reports a pane that reaches the hysteresis step
\* Error or Unknown with that status, whatever the age of the target's last
\* active stamp, and leaves that stamp as it was.
C12_ErrorUnknownPassThrough ==
    [][analytics_counter' # analytics_counter =>
         \A k \in DOMAIN cyc'.classified :
            cyc'.classified[k].status.kind \in {"Error", "Unknown"} =>
                /\ \A i \in {j \in 1..Len(update'.agents) :
                                update'.agents[j].target = cyc'.classified[k].target} :
                      update'.agents[i].status = cyc'.classified[k].status
                /\ (cyc'.classified[k].target \in DOMAIN last_active') =
                       (cyc'.classified[k].target \in DOMAIN last_active)
                /\ cyc'.classified[k].target \in DOMAIN last_active =>
                      last_active'[cyc'.classified[k].target]
                          = last_active[cyc'.classified[k].target]]_vars

\* A pane reported Unknown whose target was stamped active less than 2000 ms
\* before.
C12_Witness ==
    /\ Snapshot
    /\ \E k \in DOMAIN cyc.classified :
        /\ cyc.classified[k].status = Unknown
        /\ cyc.classified[k].target \in DOMAIN last_active
        /\ cyc.at - last_active[cyc.classified[k].target] < STATUS_HYSTERESIS_MS
        /\ \E i \in AgentsAt(cyc.classified[k].target) : update.agents[i].status = Unknown

\* C13 (SpecIntervals): any two `ps` queries of the process cache are at
\* least 500 ms apart, whatever the poll interval and whether or not `ps`
\* succeeds.
C13_BoundedPsFrequency ==
    CycleDone /\ cyc.ps_gap >= 0 => cyc.ps_gap >= CacheRefreshMs

\* C14 (SpecIntervals): of two calls of refresh_process_cache in a row of
\* which the first made a successful `ps` query, the second makes a new
\* query exactly when 500 ms or more have passed since the first.
C14_RefreshThreshold ==
    CycleDone /\ cyc.after_ok_query =>
        (cyc.ps_query <=> cyc.since_prev >= CacheRefreshMs)

\* C15 (SpecChannel): each completed cycle sends one update while the
\* receiver is open; the updates in the channel are those of the cycles after
\* the one received last, in the order of the cycles, none missing and none
\* twice; the channel never holds more than 32, the task waiting when it is
\* full.
C15_SnapshotDelivery ==
    /\ Len(chan) <= ChannelCapacity
    /\ \A i \in 1..Len(chan) : chan[i].cycle = rx_last.cycle + i
    /\ rx_last.cycle + Len(chan) = sent_count
    /\ rx_open => sent_count = analytics_counter

\* The channel is full again after the presentation loop received an update
\* from a full channel.
C15_Witness ==
    /\ Len(chan) = ChannelCapacity
    /\ rx_last.cycle >= 1
    /\ sent_count > ChannelCapacity

\* C16 (SpecUI): at every render the agents shown are those of the update
\* the monitor task placed in the channel last, also when several updates
\* wait in the channel.
C16_ShowsLatestPlaced == render.drawn => render.agents = render.placed

\* C16, amended (SpecUI): at every render the agents shown are those of the
\* update the presentation loop received last (none before the first).
C16_ShowsLatestReceived == render.drawn => render.agents = render.received

\* A render while two updates wait in the channel, after a first was
\* received.
C16_Witness ==
    /\ render.drawn
    /\ render.queued >= 2
    /\ rx_last.cycle >= 1
    /\ render.agents # <<>>

\* The requests a cycle passed to submit_factory, in the order of the calls.
Submitted(c) ==
    LET IsSubmit(x) == x.call = "submit_factory"
        made == SelectSeq(c.calls, IsSubmit)
    IN [i \in 1..Len(made) |-> made[i].arg]

\* Each submit_factory call of the cycle comes before its list_panes call.
SubmitsBeforeListing(c) ==
    \A i, j \in 1..Len(c.calls) :
        c.calls[i].call = "submit_factory" /\ c.calls[j].call = "list_panes" => i < j

\* C17 (SpecFactory): a cycle removes every command that waits in the
\* factory channel at its top and passes each to submit_factory once, in
\* the order of the queue, before it lists the panes.
C17_DrainSubmitsAll ==
    [][analytics_counter' # analytics_counter =>
          /\ factory_rx' = <<>>
          /\ Submitted(cyc') = factory_rx
          /\ SubmitsBeforeListing(cyc')]_vars

\* C17, amended (SpecFactory): a cycle removes every command that waits in
\* the factory channel at its top; with a client configured it passes each
\* to submit_factory once, in the order of the queue, before it lists the
\* panes; with no client it submits none and flashes that AgentOS is not
\* connected.
C17_DrainSubmitsWithClient ==
    [][analytics_counter' # analytics_counter =>
          /\ factory_rx' = <<>>
          /\ cyc'.drained = Len(factory_rx)
          /\ agentos_client => Submitted(cyc') = factory_rx
          /\ ~agentos_client =>
                /\ Submitted(cyc') = <<>>
                /\ factory_rx # <<>> /\ rx_open =>
                      update'.flash.msg = "Factory: AgentOS not connected"
          /\ SubmitsBeforeListing(cyc')]_vars

\* A cycle that drained two different requests and submitted both in the
\* order they were enqueued.
C17_Witness ==
    /\ CycleDone
    /\ cyc.drained = 2
    /\ Len(Submitted(cyc)) = 2
    /\ Submitted(cyc)[1] = "test"
    /\ Submitted(cyc)[2] = "build"
    /\ factory_rx = <<>>

\* C18 (SpecUI): a handler whose tmux call fails, by key or by mouse, leaves
\* an error message and the loop running; a handler whose tmux calls all
\* succeed, and the dismissal, leave no error message.
C18_SendFailureReported ==
    [][ui_last'.n # ui_last.n =>
          /\ ui_last'.failed => state'.last_error # None /\ rx_open'
          /\ ui_last'.calls > 0 /\ ~ui_last'.failed => state'.last_error = None
          /\ ui_last'.action = "Refresh" => state'.last_error = None]_vars

\* C19 (SpecIntervals): for every poll interval and every combination of
\* failures of the pane listing, the capture, `ps` and the API, the monitor
\* task does not panic.
C19_NeverPanics == task # "panicked"

\* C20 (SpecParsers): the parser the registry returns for a pane is the
\* first of Claude Code, OpenCode, Codex CLI, Gemini CLI, in that order,
\* whose matches() is true over the pane's command, title, command line and
\* child commands; it returns none exactly when none of the four matches.
C20_FirstMatchWins ==
    probe.asked /\ probe.found # "unset" =>
        LET order == <<"ClaudeCode", "OpenCode", "CodexCli", "GeminiCli">>
            strs == <<probe.pane.command, probe.pane.title, probe.pane.cmdline>>
                    \o probe.pane.child_commands
        IN /\ (probe.found = None) <=> (\A i \in 1..4 : ~Matches(order[i], strs))
           /\ probe.found # None =>
                 \E i \in 1..4 :
                    /\ order[i] = probe.found
                    /\ Matches(order[i], strs)
                    /\ \A j \in 1..(i - 1) : ~Matches(order[j], strs)

\* A pane that both the Claude Code parser and the Codex CLI parser match,
\* by a child command and by the command, for which Claude Code is returned.
C20_Witness ==
    /\ probe.asked
    /\ probe.found = "ClaudeCode"
    /\ CodexCliMatches(<<probe.pane.command>>)
    /\ ~ClaudeCodeMatches(<<probe.pane.command, probe.pane.title, probe.pane.cmdline>>)
    /\ ClaudeCodeMatches(probe.pane.child_commands)

\* C30 (Spec): the update of a cycle that skipped the API call because of
\* the backoff reports not connected, carries no queue task and no agent
\* made from a remote pane, has an agent for every pane the cycle
\* classified, and the cycle leaves the failure counter as it was.
C30_SkippedCycle ==
    Snapshot /\ cyc.skipped =>
        /\ ~update.agentos_connected
        /\ update.queue_tasks = <<>>
        /\ RemoteAgents(update.agents) = {}
        /\ \A k \in DOMAIN cyc.classified : AgentsAt(cyc.classified[k].target) # {}
        /\ Len(update.agents) = Cardinality(DOMAIN cyc.classified)
        /\ api_fail_count = cyc.fail_before

\* A skipped cycle that classified a pane, with a failure counted.
C30_Witness ==
    /\ Snapshot
    /\ cyc.skipped
    /\ DOMAIN cyc.classified # {}
    /\ cyc.fail_before >= 1

\* The window extract_user_question scans: of the last 20 lines of the
\* capture, the lines before the last prompt marker, 25 at most.
Window(content) == CheckLines(Lines(JoinLines(LastN(Lines(content), 20))))

\* A choice line, and the number it carries.
Numbered(line) ==
    ChoiceCaptures(line).matched /\ ParseU32(ChoiceCaptures(line).digits) # -1
NumberOf(line) == ParseU32(ChoiceCaptures(line).digits)

\* A line that does not end a run of choices: not a border, and either
\* empty, at most 30 bytes long without its outer whitespace, or numbered
\* beyond u32.
Harmless(line) ==
    /\ ~IsBorder(line)
    /\ ChoiceCaptures(line).matched \/ ByteLen(Trim(line)) <= 30

AsksQuestion ==
    /\ scan.asked /\ scan.done
    /\ scan.parser = "ClaudeCode"
    /\ scan.status.kind = "AwaitingApproval"
    /\ scan.status.approval_type = "UserQuestion"

Blank(content) == \A i \in 1..Len(content) : content[i] \in Whitespace

\* One of the approval signals of the primary parser shows in the capture:
\* numbered choices, Yes and No buttons, or an approval text.
ApprovalSignal(content) ==
    \E recent \in {LastN(Lines(content), 20)} :
        \/ ExtractUserQuestion(JoinLines(recent)) # <<>>
        \/ DetectYesNoButtons(recent)
        \/ IsMatch(GeneralApprovalPattern, JoinLines(Reverse(LastN(recent, 10))))

MentionsThinking(activity) == activity \in {"Thinking", "Thinking..."}

\* C23 (SpecStatus): the primary parser reads Processing, with an activity
\* that names thinking, from a capture that shows a thinking cue and no
\* approval signal.
C23_ThinkingIsProcessing ==
    /\ scan.asked /\ scan.done
    /\ scan.parser = "ClaudeCode"
    /\ Contains(ToLower(scan.content), <<"t", "h", "i", "n", "k", "i", "n", "g">>)
    /\ ~ApprovalSignal(scan.content)
    => scan.status.kind = "Processing" /\ MentionsThinking(scan.status.activity)

\* C24 (SpecStatus): the context percentage stored in an agent is between
\* 0 and 100, whatever the capture shows before the percent sign.
C24_ContextRange ==
    scan.asked /\ scan.done /\ scan.context_remaining # -1 =>
        scan.context_remaining \in 0..100

\* A step in which the presentation loop handles an event.
EventStep == ui_last'.n = ui_last.n + 1

\* C25 (SpecSelection): Approve, Reject and Approve-all, by key or by
\* footer button, send keys only to targets of agents whose status in the
\* snapshot shown is AwaitingApproval or Error, never to one that is Idle,
\* Processing or Unknown.
C25_ApprovalGating ==
    [][EventStep /\ ui_last'.action \in {"Approve", "Reject", "ApproveAll"} =>
        \A k \in 1..Len(ui_last'.sent) :
            \E i \in 1..Len(state.agents) :
                /\ state.agents[i].target = ui_last'.sent[k]
                /\ state.agents[i].status.kind \in {"AwaitingApproval", "Error"}
                /\ state.agents[i].status.kind \notin {"Idle", "Processing", "Unknown"}]_vars

\* Approve-all by button has sent keys to one of two agents shown, the
\* other being Idle, Processing or Unknown.
C25_Witness ==
    /\ ui_last.action = "ApproveAll"
    /\ ui_last.via = "mouse"
    /\ Len(ui_last.sent) = 1
    /\ Len(state.agents) = 2
    /\ \E i, j \in 1..2 :
        /\ state.agents[i].target = ui_last.sent[1]
        /\ state.agents[i].status.kind = "Error"
        /\ state.agents[j].status.kind \in {"Idle", "Processing", "Unknown"}

\* The actions by which the operator moves the cursor or selects agents.
Selecting == {"NextAgent", "PrevAgent", "ToggleSelection", "SelectAll",
              "ToggleSelect", "Row0", "Row1", "ScrollUp", "ScrollDown"}

\* C26 (SpecSelection): when the operator has put the cursor on agents or
\* selected them, and these are all still shown when Approve, Reject or a
\* number is pressed next, the keys go only to the targets that were
\* selected, whatever updates arrived in between.
C26_SelectionFollowsAgent ==
    [][/\ EventStep
       /\ ui_last.action \in Selecting
       /\ ui_last'.action \in {"Approve", "Reject", "SendNumber"}
       /\ ui_last.picked # <<>>
       /\ \A k \in 1..Len(ui_last.picked) :
            \E i \in 1..Len(state.agents) : state.agents[i].target = ui_last.picked[k]
       => \A k \in 1..Len(ui_last'.sent) :
            \E j \in 1..Len(ui_last.picked) : ui_last'.sent[k] = ui_last.picked[j]]_vars

\* C29 (SpecSelection): the cursor index is below the number of agents, or
\* 0 when none is shown, and every index of the multi-selection is below
\* the number of agents.
C29_SelectionInRange ==
    /\ state.selected_index < Len(state.agents)
        \/ (state.agents = <<>> /\ state.selected_index = 0)
    /\ \A idx \in state.selected_agents : idx < Len(state.agents)

\* C28 (SpecFactory): the update a cycle sends carries, as its flash, the
\* outcome of every command the cycle took from the factory channel: with
\* a client the acceptance or the error of that command's request, with
\* none the notice that AgentOS is not connected.
C28_EveryOutcomeReported ==
    [][analytics_counter' # analytics_counter /\ rx_open =>
          \A k \in 1..Len(factory_rx) :
              IF agentos_client
              THEN /\ update'.flash.request = factory_rx[k]
                   /\ update'.flash.msg \in {"Factory: accepted", "Factory error"}
              ELSE update'.flash.msg = "Factory: AgentOS not connected"]_vars

====
